---- MODULE Spec2Model ----
(***************************************************************************)
(* Continuous behavioural authentication: the real-time session protocol  *)
(* of app/realtime.py (RealtimeBehaviorService), the account store of     *)
(* app/database.py (AuthDatabase) and the scoring entry point of          *)
(* backend/ml/behavioral_analyzer.py.                                      *)
(*                                                                         *)
(* Every connection handler is a coroutine: it runs without interruption  *)
(* between two awaits (receive_text, send_text, close), and at each await *)
(* any other handler may run.  One action of this module is one such      *)
(* uninterrupted piece of a handler.                                       *)
(*                                                                         *)
(* Risk scores are percentages (70 stands for 0.7).  The fitted models of *)
(* scikit-learn are outside the repository: where the code asks a fitted  *)
(* model for a score the model draws any value of Risks.                  *)
(***************************************************************************)
EXTENDS Integers, Sequences, FiniteSets, TLC

-----------------------------------------------------------------------------
(* Bounds and value sets *)

\* Inbound frames (after the first, authentication frame) over all connections.
MaxFrames == 2

\* WebSocket connections accepted by the service.
Conns == {"c1", "c2"}

\* Usernames a message or a request can carry.
Names == {"alice", "bob"}

\* The usernames whose access token (a signed, unexpired JWT issued by
\* /login or /start-session before the account was disabled) clients hold.
TokenHolders == {"alice"}

\* Python's None, as the value of a missing JSON member.
Null == "null"

\* A userId that is not None but falsy in Python: the empty string.
EmptyStr == ""

\* The values the userId member of a message can take.
UserIds == Names \cup {Null, EmptyStr}

SessionIds == {"s1", "s2"}

\* An event batch (keystrokeData / mouseData / behavioralData) as the
\* extractor sees it: "ok" is a list of event objects, "malformed" makes
\* the extractor raise (a non-object event, a non-numeric timestamp),
\* "absent" is a missing member.
BatchKinds == {"ok", "malformed", "absent"}

\* deque(maxlen=200) of the service's recent events.
RecentEventsMaxLen == 200

\* Scores a fitted model can return, in percent: the MEDIUM literal, a
\* score between it and the default thresholds, the default thresholds.
Risks == {50, 65, 70}

\* The scores drawn where the thresholds are the defaults and no alert
\* level is at stake: one below and one at the block threshold.
SampledRisks == {50, 70}

\* Settings.high_risk_threshold and Settings.anomaly_block_threshold defaults.
DefaultHighRiskThreshold == 70
DefaultAnomalyBlockThreshold == 70

\* (high_risk_threshold, anomaly_block_threshold) pairs a deployment may
\* configure: the defaults; a high-risk threshold between two scores of
\* Risks; one at a score of Risks, under a block threshold above every
\* score; one below the MEDIUM literal; a block threshold below the
\* high-risk threshold, with a score above both.
ThresholdPairs == {<<DefaultHighRiskThreshold, DefaultAnomalyBlockThreshold>>,
                   <<60, DefaultAnomalyBlockThreshold>>,
                   <<65, 90>>,
                   <<40, DefaultAnomalyBlockThreshold>>,
                   <<65, 60>>}

\* The MEDIUM alert threshold, a literal of the handler.
MediumThreshold == 50

\* Outcomes of send_security_alert: no webhook configured or delivered,
\* a URLError (logged and swallowed), or any other exception (a malformed
\* webhook URL, a read timeout), which the function does not catch.
AlertOutcomes == {"delivered", "logged", "raised"}

-----------------------------------------------------------------------------
VARIABLES
    users,               \* users table: username -> "none" | "active" | "blocked"
    roles,               \* users.role of each row (of no meaning without a row)
    settings,            \* [high_risk_threshold, anomaly_block_threshold]
    security_events,     \* security_events table, in insertion order
    behavioral_profiles, \* behavioral_profiles table: session id -> row | NoRow
    user_profiles,       \* analyzer.user_profiles: the set of its keys
    is_trained,          \* analyzer.is_trained
    user_sessions,       \* service.user_sessions: session id -> entry | NoSession
    connection_auth,     \* service.connection_auth: connection -> claims | NoClaims
    metrics,             \* service.metrics
    recent_events,       \* service.recent_events: how many events it holds
    pc,                  \* where each connection's handler is
    cur,                 \* the handler's locals while it is suspended at an await
    ws,                  \* each WebSocket: "idle" | "open" | "closed_1008" (by the
                         \* service) | "gone" (by the client) | "closed" (by the server,
                         \* after the handler ended)
    outbox,              \* frames delivered to each client, in order
    received,            \* the inbound frames received after authentication, in order
    raw_events,          \* the event batch handed to the feature extractor
    features,            \* what the feature extractor did with it
    saves                \* the save_behavioral_profile calls made directly, in order

vars == <<users, roles, settings, security_events,
          behavioral_profiles, user_profiles, is_trained, user_sessions,
          connection_auth, metrics, recent_events, pc, cur, ws, outbox,
          received, raw_events, features, saves>>

dbVars == <<users, security_events, behavioral_profiles>>

cfgVars == <<settings, is_trained>>

\* The variables of the library functions examined on their own (the feature
\* extractor, the profile store), which the service's handlers do not touch.
libVars == <<raw_events, features, saves>>

\* The variables of the service and of its database.
serviceVars == <<users, roles, settings, security_events,
                 behavioral_profiles, user_profiles, is_trained, user_sessions,
                 connection_auth, metrics, recent_events, pc, cur, ws, outbox,
                 received>>

-----------------------------------------------------------------------------
(* Values *)

NoRow == [user |-> Null, samples |-> <<>>, risk_score |-> 0, present |-> FALSE]
NoSession == [username |-> Null, websocket |-> "none", risk_score |-> 0, present |-> FALSE]
NoClaims == [sub |-> Null, bound |-> FALSE]
NoLocals == [type |-> "none", userId |-> Null, sessionId |-> "s1", risk |-> 0,
             target |-> "none", fid |-> 0,
             frame |-> [type |-> "none", sessionId |-> Null, userId |-> Null,
                        riskScore |-> 0, alert |-> "none", cause |-> 0]]

\* Python truthiness of a userId / subject value.
Truthy(x) == x \notin {Null, EmptyStr}

Max(a, b) == IF a >= b THEN a ELSE b

\* An outbound frame; a member the frame does not carry is Null (0 for the
\* score, "none" for the alert).  cause is the number of the inbound frame
\* whose handling sent it: bookkeeping of the model, not wire data.
OutFrame(type, sid, uid, risk, alert, cause) ==
    [type |-> type, sessionId |-> sid, userId |-> uid, riskScore |-> risk,
     alert |-> alert, cause |-> cause]

-----------------------------------------------------------------------------
(* AuthDatabase *)

\* get_user(username)["success"]: a row with that username exists.
get_user_success(username) == username \in Names /\ users[username] # "none"

\* is_user_blocked: the row exists and its is_active is 0.
is_user_blocked(username) == username \in Names /\ users[username] = "blocked"

\* The security_events row of one INSERT.  cause is the number of the inbound
\* frame whose handling wrote it (0 for a REST request): bookkeeping of the
\* model, not a column.
SecurityEvent(username, event_type, session_id, cause) ==
    [username |-> username, event_type |-> event_type, session_id |-> session_id,
     cause |-> cause]

\* log_security_event: one INSERT; security_events.username is NOT NULL, so
\* a None username violates the constraint, and the exception is swallowed.
log_security_event(events, username, event_type, session_id, cause) ==
    IF username = Null
    THEN events
    ELSE Append(events, SecurityEvent(username, event_type, session_id, cause))

\* block_user, the users table: UPDATE users SET is_active = 0 WHERE username = ?
\* changes the row if there is one.  With a None username the INSERT that
\* follows raises before the commit, and no row matched anyway.
block_user_users(table, username) ==
    IF username \in Names /\ table[username] # "none"
    THEN [table EXCEPT ![username] = "blocked"]
    ELSE table

\* block_user, the security_events table: the ANOMALY_BLOCK row.
block_user_events(events, username, session_id, cause) ==
    log_security_event(events, username, "ANOMALY_BLOCK", session_id, cause)

\* A faulty save that replaces the lists of an existing row instead of
\* extending them: the property of the stored lists must tell it from
\* save_behavioral_profile.
save_behavioral_profile_overwriting(rows, user, session_id, sample, risk) ==
    IF rows[session_id].present
    THEN [rows EXCEPT ![session_id].samples = <<sample>>,
                      ![session_id].risk_score = risk]
    ELSE [rows EXCEPT ![session_id] =
            [user |-> user, samples |-> <<sample>>, risk_score |-> risk,
             present |-> TRUE]]

\* save_behavioral_profile: a row of that session id is extended (its lists
\* grow, its risk score is replaced, its user_id stays); otherwise a row is
\* inserted.  A sample is named by the number of the frame that carried it.
save_behavioral_profile(rows, user, session_id, sample, risk) ==
    IF rows[session_id].present
    THEN [rows EXCEPT ![session_id].samples = Append(@, sample),
                      ![session_id].risk_score = risk]
    ELSE [rows EXCEPT ![session_id] =
            [user |-> user, samples |-> <<sample>>, risk_score |-> risk,
             present |-> TRUE]]

-----------------------------------------------------------------------------
(* Numbers of the feature extractor *)

\* A Python float as the extractor meets it: a finite number (whole
\* milliseconds, pixels or counts; a quotient is rounded down to a whole
\* number of its unit), +inf, -inf or nan.  json.loads turns 1e999 and
\* Infinity into +inf.
Fin(n) == [k |-> "fin", v |-> n]
PosInf == [k |-> "pinf", v |-> 0]
NegInf == [k |-> "ninf", v |-> 0]
NaN == [k |-> "nan", v |-> 0]

\* math.isfinite / np.isfinite.
IsFinite(a) == a.k = "fin"

\* a - b on floats.
FSub(a, b) ==
    IF a.k = "nan" \/ b.k = "nan" THEN NaN
    ELSE IF a.k = "fin" /\ b.k = "fin" THEN Fin(a.v - b.v)
    ELSE IF a.k = b.k THEN NaN
    ELSE IF a.k = "pinf" \/ b.k = "ninf" THEN PosInf
    ELSE NegInf

\* a <= b on floats: false when either is nan.
FLe(a, b) ==
    IF a.k = "nan" \/ b.k = "nan" THEN FALSE
    ELSE IF a.k = "ninf" \/ b.k = "pinf" THEN TRUE
    ELSE IF a.k = "pinf" \/ b.k = "ninf" THEN FALSE
    ELSE a.v <= b.v

\* a < b on floats.
FLt(a, b) == FLe(a, b) /\ a # b

\* max(1.0, a) as Python evaluates it: a when a > 1.0, else 1.0 (also for nan).
FMaxOne(a) == IF FLt(Fin(1), a) THEN a ELSE Fin(1)

\* count * scale / a for a count >= 0 and a divisor a >= 1: 0.0 when a is +inf.
FQuot(count, scale, a) ==
    IF a.k = "pinf" THEN Fin(0) ELSE Fin((count * scale) \div a.v)

\* The value of a JSON member that is null, and of one that is missing.
JsonNull == [k |-> "null", v |-> 0]
Absent == [k |-> "absent", v |-> 0]

RECURSIVE SumSeq(_)
SumSeq(s) == IF s = <<>> THEN 0 ELSE Head(s) + SumSeq(Tail(s))

\* sorted(key=...) / list.sort(): s in the stable order of its keys, where
\* keys[i] is the float key of s[i] (no key is nan).
SortByKeys(s, keys) ==
    LET place(i) == 1 + Cardinality({j \in 1..Len(s) :
                           FLt(keys[j], keys[i]) \/ (keys[j] = keys[i] /\ j < i)})
    IN [p \in 1..Len(s) |-> s[CHOOSE i \in 1..Len(s) : place(i) = p]]

\* The largest whole number of lo..hi whose square is at most n.
RECURSIVE SqrtBetween(_, _, _)
SqrtBetween(n, lo, hi) ==
    IF lo >= hi THEN lo
    ELSE LET mid == (lo + hi + 1) \div 2
         IN IF mid * mid <= n THEN SqrtBetween(n, mid, hi) ELSE SqrtBetween(n, lo, mid - 1)

\* The square root of n >= 0, rounded down.
ISqrt(n) == SqrtBetween(n, 0, IF n < 46340 THEN n ELSE 46340)

-----------------------------------------------------------------------------
(* BehavioralFeatureExtractor: events, statistics, keystroke features *)

\* One element of keystrokeData / mouseData.  obj is false for a JSON value
\* that is not an object (a number).  Each member is a float, JsonNull or
\* Absent.
Event(type, key, ts, dwellTime, x, y) ==
    [obj |-> TRUE, type |-> type, key |-> key, ts |-> ts, dwellTime |-> dwellTime,
     x |-> x, y |-> y]

NonObject ==
    [obj |-> FALSE, type |-> "", key |-> "", ts |-> Absent, dwellTime |-> Absent,
     x |-> Absent, y |-> Absent]

\* What a call of the extractor does: it returns a feature dict (a function
\* from feature names to floats) or it raises.
Returned(vec) == [status |-> "returned", vec |-> vec]
Raised == [status |-> "raised", vec |-> [n \in {} |-> Fin(0)]]

\* dict.update / {**a, **b}: the members of b, and those of a that b lacks.
Update(a, b) == b @@ a

\* The names _safe_stats builds from a prefix: mean, std, median, p95.
StatNames ==
    [dwell |-> <<"dwell_mean", "dwell_std", "dwell_median", "dwell_p95">>,
     flight |-> <<"flight_mean", "flight_std", "flight_median", "flight_p95">>,
     ikl |-> <<"ikl_mean", "ikl_std", "ikl_median", "ikl_p95">>,
     velocity |-> <<"velocity_mean", "velocity_std", "velocity_median", "velocity_p95">>,
     acceleration |-> <<"acceleration_mean", "acceleration_std", "acceleration_median",
                        "acceleration_p95">>,
     click_interval |-> <<"click_interval_mean", "click_interval_std",
                          "click_interval_median", "click_interval_p95">>]

\* The whole numbers xs in ascending order.
SortInts(xs) == SortByKeys(xs, [i \in 1..Len(xs) |-> Fin(xs[i])])

\* np.mean, np.std (population), np.median and np.percentile(.., 95) (linear
\* interpolation) of a non-empty list of whole numbers.
Mean(xs) == SumSeq(xs) \div Len(xs)

Std(xs) ==
    LET n == Len(xs)
        sq == SumSeq([i \in 1..n |-> xs[i] * xs[i]])
        sm == SumSeq(xs)
    IN ISqrt((n * sq - sm * sm) \div (n * n))

\* Twice the median: the middle element twice, or the sum of the two middle ones.
Median2(xs) ==
    LET n == Len(xs)
        srt == SortInts(xs)
    IN IF n % 2 = 1 THEN 2 * srt[(n + 1) \div 2]
       ELSE srt[n \div 2] + srt[n \div 2 + 1]

Median(xs) == Median2(xs) \div 2

P95(xs) ==
    LET n == Len(xs)
        srt == SortInts(xs)
        lo == (95 * (n - 1)) \div 100
        fr == (95 * (n - 1)) % 100
    IN IF fr = 0 THEN srt[lo + 1]
       ELSE srt[lo + 1] + (fr * (srt[lo + 2] - srt[lo + 1])) \div 100

\* _safe_stats(values, prefix): all four are 0.0 when the list is empty or
\* holds no finite value; else the statistics of its finite values.
safe_stats(values, prefix) ==
    LET names == StatNames[prefix]
        finite == SelectSeq(values, IsFinite)
        xs == [i \in 1..Len(finite) |-> finite[i].v]
        stats == IF values = <<>> \/ finite = <<>>
                 THEN <<Fin(0), Fin(0), Fin(0), Fin(0)>>
                 ELSE <<Fin(Mean(xs)), Fin(Std(xs)), Fin(Median(xs)), Fin(P95(xs))>>
    IN [nm \in {names[i] : i \in 1..4} |->
           stats[CHOOSE i \in 1..4 : names[i] = nm]]

\* The thresholds of extract_keystroke_features and extract_mouse_features.
MinKeystrokeEvents == 6
MinKeydownKeyup == 3
MinMouseEvents == 5
MaxDwellMs == 3000
MinFlightMs == 0 - 500
PauseMs == 700

get_default_keystroke_features ==
    [nm \in {"dwell_mean", "dwell_std", "dwell_median", "dwell_p95",
             "flight_mean", "flight_std", "flight_median", "flight_p95",
             "ikl_mean", "ikl_std", "ikl_median", "ikl_p95",
             "typing_speed", "keys_count", "active_duration_ms", "unique_keys",
             "backspace_frequency", "error_rate", "pause_ratio",
             "rhythm_consistency", "dwell_outlier_rate"} |-> Fin(0)]

HasTimestamp(e) == e.ts # Absent
IsKeydown(e) == e.type = "keydown"
IsKeyup(e) == e.type = "keyup"

\* sorted([e for e in data if "timestamp" in e], key=timestamp) raises
\* TypeError when an element is not an object, and when two or more elements
\* are compared and a timestamp is null.
ordered_raises(data) ==
    \/ \E i \in 1..Len(data) : ~data[i].obj
    \/ /\ Len(SelectSeq(data, HasTimestamp)) >= 2
       /\ \E i \in 1..Len(data) : data[i].ts = JsonNull

ordered_events(data) ==
    LET stamped == SelectSeq(data, HasTimestamp)
    IN SortByKeys(stamped, [i \in 1..Len(stamped) |-> stamped[i].ts])

\* The keys an event can name.
KeyNames == {"a", "b", "Backspace"}

InRange(lo, d, hi) == FLe(Fin(lo), d) /\ FLe(d, Fin(hi))

\* The loop that matches each keyup with the oldest open keydown of its key
\* (or takes the event's own finite dwellTime) and keeps the dwells within
\* 0..3000 ms.  open is open_presses, dwells is dwell_times.
RECURSIVE dwell_loop(_, _, _)
dwell_loop(evs, open, dwells) ==
    IF evs = <<>> THEN dwells
    ELSE LET e == Head(evs)
             rest == Tail(evs)
             kept(d) == IF InRange(0, d, MaxDwellMs) THEN Append(dwells, d) ELSE dwells
         IN IF IsKeydown(e)
            THEN dwell_loop(rest, [open EXCEPT ![e.key] = Append(@, e.ts)], dwells)
            ELSE IF ~IsKeyup(e) THEN dwell_loop(rest, open, dwells)
            ELSE IF e.dwellTime # Absent /\ IsFinite(e.dwellTime)
            THEN dwell_loop(rest, open, kept(e.dwellTime))
            ELSE IF open[e.key] = <<>> THEN dwell_loop(rest, open, dwells)
            ELSE dwell_loop(rest, [open EXCEPT ![e.key] = Tail(@)],
                            kept(FSub(e.ts, Head(open[e.key]))))

\* np.isfinite(None) raises TypeError on a keyup whose dwellTime is null.
dwell_raises(ordered) ==
    \E i \in 1..Len(ordered) : IsKeyup(ordered[i]) /\ ordered[i].dwellTime = JsonNull

\* flight_times and ikl_latencies from the sorted keydown and keyup times.
flight_times(down_ts, up_ts) ==
    LET m == IF Len(down_ts) - 1 < Len(up_ts) THEN Len(down_ts) - 1 ELSE Len(up_ts)
        ok(d) == InRange(MinFlightMs, d, MaxDwellMs)
    IN SelectSeq([i \in 1..m |-> FSub(down_ts[i + 1], up_ts[i])], ok)

ikl_latencies(down_ts, up_ts) ==
    LET m == IF Len(down_ts) - 1 < Len(up_ts) THEN Len(down_ts) - 1 ELSE Len(up_ts)
        ok(d) == InRange(0, d, MaxDwellMs)
    IN SelectSeq([i \in 1..m |-> FSub(down_ts[i + 1], down_ts[i])], ok)

\* The share, in thousandths, of dwell times whose robust z-score
\* |x - med| / (1.4826 * (MAD + 1e-6)) exceeds 3.5, i.e. whose deviation
\* exceeds 5.1891 * MAD; computed on deviations scaled by four, which are whole.
dwell_outlier_rate(dwell_times) ==
    LET n == Len(dwell_times)
        med2 == Median2([i \in 1..n |-> dwell_times[i].v])
        dev2 == [i \in 1..n |-> IF 2 * dwell_times[i].v >= med2
                                THEN 2 * dwell_times[i].v - med2
                                ELSE med2 - 2 * dwell_times[i].v]
        mad4 == Median2(dev2)
        outliers == {i \in 1..n : 2 * dev2[i] * 10000 > 51891 * mad4}
    IN IF n = 0 THEN Fin(0) ELSE Fin((Cardinality(outliers) * 1000) \div n)

\* The computed path of extract_keystroke_features.  Ratios are in
\* thousandths, typing_speed in keys per second.
keystroke_computed(ordered) ==
    LET keydown_events == SelectSeq(ordered, IsKeydown)
        keyup_events == SelectSeq(ordered, IsKeyup)
        dwell_times == dwell_loop(ordered, [k \in KeyNames |-> <<>>], <<>>)
        down_ts == [i \in 1..Len(keydown_events) |-> keydown_events[i].ts]
        up_ts == [i \in 1..Len(keyup_events) |-> keyup_events[i].ts]
        flights == flight_times(down_ts, up_ts)
        ikls == ikl_latencies(down_ts, up_ts)
        total_ms == FMaxOne(FSub(ordered[Len(ordered)].ts, ordered[1].ts))
        key_count == Max(1, Len(keydown_events))
        IsCorrection(e) == e.key \in {"Backspace", "Delete"}
        corrections == Len(SelectSeq(keydown_events, IsCorrection))
        IsPause(d) == FLt(Fin(PauseMs), d)
        pauses == SelectSeq(ikls, IsPause)
        rest == [typing_speed |-> FQuot(key_count, 1000, total_ms),
                 keys_count |-> Fin(key_count),
                 active_duration_ms |-> total_ms,
                 unique_keys |-> Fin(Cardinality({keydown_events[i].key :
                                                    i \in 1..Len(keydown_events)})),
                 backspace_frequency |-> Fin((corrections * 1000) \div key_count),
                 error_rate |-> Fin((corrections * 1000) \div key_count),
                 pause_ratio |-> Fin((Len(pauses) * 1000) \div Max(1, Len(ikls))),
                 rhythm_consistency |->
                     IF ikls = <<>> THEN Fin(0)
                     ELSE Fin(Std([i \in 1..Len(ikls) |-> ikls[i].v])),
                 dwell_outlier_rate |-> dwell_outlier_rate(dwell_times)]
    IN Update(Update(Update(safe_stats(dwell_times, "dwell"),
                            safe_stats(flights, "flight")),
                     safe_stats(ikls, "ikl")),
              rest)

extract_keystroke_features(keystroke_data) ==
    IF keystroke_data = <<>> THEN Returned(get_default_keystroke_features)
    ELSE IF ordered_raises(keystroke_data) THEN Raised
    ELSE LET ordered == ordered_events(keystroke_data)
         IN IF Len(ordered) < MinKeystrokeEvents
            THEN Returned(get_default_keystroke_features)
            ELSE IF \/ Len(SelectSeq(ordered, IsKeydown)) < MinKeydownKeyup
                    \/ Len(SelectSeq(ordered, IsKeyup)) < MinKeydownKeyup
            THEN Returned(get_default_keystroke_features)
            ELSE IF dwell_raises(ordered) THEN Raised
            ELSE Returned(keystroke_computed(ordered))

-----------------------------------------------------------------------------
(* BehavioralFeatureExtractor: mouse features *)

get_default_mouse_features ==
    [nm \in {"velocity_mean", "velocity_std", "velocity_median", "velocity_p95",
             "acceleration_mean", "acceleration_std", "acceleration_median",
             "acceleration_p95", "movement_efficiency", "direction_changes",
             "click_interval_mean", "click_interval_std", "click_interval_median",
             "click_interval_p95", "click_rate", "mouse_events_count"} |-> Fin(0)]

IsMove(e) == e.type = "mousemove" /\ e.x # Absent /\ e.y # Absent
IsClick(e) == e.type \in {"click", "mousedown"}

\* np.hypot, rounded down to whole pixels.
Hypot(dx, dy) == ISqrt(dx * dx + dy * dy)

NoVelocity == -1

\* The loop over consecutive move events (coordinates and times finite).  It
\* skips a pair with dt <= 0; velocities are in pixels per second,
\* accelerations in pixels per second per millisecond; a direction is kept as
\* its displacement, (1, 0) standing for the angle 0.0 of arctan2(0, 0).
RECURSIVE motion_loop(_, _, _)
motion_loop(moves, i, acc) ==
    IF i > Len(moves) THEN acc
    ELSE LET prev == moves[i - 1]
             cur_ == moves[i]
             dt == cur_.ts.v - prev.ts.v
             dx == cur_.x.v - prev.x.v
             dy == cur_.y.v - prev.y.v
             dist == Hypot(dx, dy)
             v == (dist * 1000) \div dt
         IN IF dt <= 0 THEN motion_loop(moves, i + 1, acc)
            ELSE motion_loop(moves, i + 1,
                     [prev_v |-> v,
                      velocities |-> Append(acc.velocities, Fin(v)),
                      accelerations |->
                          IF acc.prev_v = NoVelocity THEN acc.accelerations
                          ELSE Append(acc.accelerations, Fin((v - acc.prev_v) \div dt)),
                      directions |-> Append(acc.directions,
                                            IF dx = 0 /\ dy = 0 THEN <<1, 0>> ELSE <<dx, dy>>),
                      path_distance |-> acc.path_distance + dist])

\* movement_efficiency (in thousandths, clipped to 0..1) and
\* direction_changes: consecutive directions more than a right angle apart,
\* which is a negative inner product.
movement_features(move_events, motion) ==
    LET start == move_events[1]
        end == move_events[Len(move_events)]
        straight_distance == Hypot(end.x.v - start.x.v, end.y.v - start.y.v)
        movement_eff == IF motion.path_distance > 0
                        THEN (straight_distance * 1000) \div motion.path_distance
                        ELSE 1000
        dirs == motion.directions
        turns == {i \in 2..Len(dirs) :
                     dirs[i][1] * dirs[i - 1][1] + dirs[i][2] * dirs[i - 1][2] < 0}
    IN IF Len(move_events) > 1
       THEN [movement_efficiency |-> Fin(IF movement_eff > 1000 THEN 1000 ELSE movement_eff),
             direction_changes |-> Fin(Cardinality(turns))]
       ELSE [movement_efficiency |-> Fin(0), direction_changes |-> Fin(0)]

click_features_without_rate(ordered, click_events) ==
    LET click_ts == [i \in 1..Len(click_events) |-> click_events[i].ts]
        NonNegative(d) == FLe(Fin(0), d)
        intervals == SelectSeq([i \in 1..Len(click_ts) - 1 |->
                                   FSub(click_ts[i + 1], click_ts[i])], NonNegative)
        duration_ms == FMaxOne(FSub(ordered[Len(ordered)].ts, ordered[1].ts))
    IN IF Len(click_events) > 1
       THEN Update(safe_stats(intervals, "click_interval"),
                   [click_rate |-> FQuot(Len(click_events), 1000, duration_ms)])
       ELSE [click_interval_mean |-> Fin(0), click_interval_std |-> Fin(0),
             click_interval_median |-> Fin(0), click_interval_p95 |-> Fin(0)]

\* The click statistics and click_rate (clicks per second) when there are two
\* clicks or more, and five zeros otherwise.
click_features(ordered, click_events) ==
    LET click_ts == [i \in 1..Len(click_events) |-> click_events[i].ts]
        NonNegative(d) == FLe(Fin(0), d)
        intervals == SelectSeq([i \in 1..Len(click_ts) - 1 |->
                                   FSub(click_ts[i + 1], click_ts[i])], NonNegative)
        duration_ms == FMaxOne(FSub(ordered[Len(ordered)].ts, ordered[1].ts))
    IN IF Len(click_events) > 1
       THEN Update(safe_stats(intervals, "click_interval"),
                   [click_rate |-> FQuot(Len(click_events), 1000, duration_ms)])
       ELSE [click_interval_mean |-> Fin(0), click_interval_std |-> Fin(0),
             click_interval_median |-> Fin(0), click_interval_p95 |-> Fin(0),
             click_rate |-> Fin(0)]

mouse_computed(ordered) ==
    LET move_events == SelectSeq(ordered, IsMove)
        click_events == SelectSeq(ordered, IsClick)
        motion == motion_loop(move_events, 2,
                      [prev_v |-> NoVelocity, velocities |-> <<>>, accelerations |-> <<>>,
                       directions |-> <<>>, path_distance |-> 0])
    IN Update(Update(Update(Update(movement_features(move_events, motion),
                                   safe_stats(motion.velocities, "velocity")),
                            safe_stats(motion.accelerations, "acceleration")),
                     click_features(ordered, click_events)),
              [mouse_events_count |-> Fin(Len(ordered))])

extract_mouse_features(mouse_data) ==
    IF mouse_data = <<>> THEN Returned(get_default_mouse_features)
    ELSE IF ordered_raises(mouse_data) THEN Raised
    ELSE LET ordered == ordered_events(mouse_data)
         IN IF Len(ordered) < MinMouseEvents
            THEN Returned(get_default_mouse_features)
            ELSE Returned(mouse_computed(ordered))

\* get_feature_vector: the two dicts merged; it raises when either call does.
get_feature_vector(keystroke_data, mouse_data) ==
    LET k_features == extract_keystroke_features(keystroke_data)
        m_features == extract_mouse_features(mouse_data)
    IN IF k_features.status = "raised" \/ m_features.status = "raised" THEN Raised
       ELSE Returned(Update(k_features.vec, m_features.vec))

-----------------------------------------------------------------------------
(* BehavioralAnalyzer *)

\* extract_features raises on a malformed batch (a non-object event, a
\* non-numeric timestamp): the extractor indexes and converts without a guard.
extract_features_raises(batch) == batch = "malformed"

\* analyze_real_time: the set of scores it can return (empty when the
\* extractor, which runs first, raises).  A truthy user id with a profile
\* is scored by that profile's model; everyone else by the global model,
\* which answers 0.0 while it is untrained.
analyze_real_time(batch, user_id, profiles, trained) ==
    IF extract_features_raises(batch) THEN {}
    ELSE IF Truthy(user_id) /\ user_id \in profiles THEN Risks
    ELSE IF ~trained THEN {0}
    ELSE Risks

\* The model analyze_real_time scores a sample with: the model of the user's
\* profile when the user id is truthy and has one, else the global model.
scoring_model(user_id, profiles) ==
    IF Truthy(user_id) /\ user_id \in profiles THEN "user" ELSE "global"

\* update_user_profile / create_user_profile: extract_features reads
\* behavioral_data.get(...), so a missing (None) or malformed batch raises
\* before the profile table is touched; otherwise the profile exists after.
update_user_profile_raises(batch) == batch = "absent" \/ extract_features_raises(batch)

update_user_profile(profiles, user_id) == profiles \cup {user_id}

\* get_last_explanation and user_feature_history are used by the service but
\* are not part of the analyzer's source: they are taken to return a dict and
\* to change nothing.
get_last_explanation(user_id) == [reason |-> "none"]

-----------------------------------------------------------------------------
(* Policy / response layer *)

\* A faulty alert annotation, with inclusive comparisons: the property of
\* the alert levels must tell it from alert_level.
alert_level_inclusive(risk, cfg) ==
    IF risk >= cfg.high_risk_threshold THEN "HIGH"
    ELSE IF risk >= MediumThreshold THEN "MEDIUM"
    ELSE "none"

\* The alert annotation of an analysis_result.
alert_level(risk, cfg) ==
    IF risk > cfg.high_risk_threshold THEN "HIGH"
    ELSE IF risk > MediumThreshold THEN "MEDIUM"
    ELSE "none"

\* The hard-stop test of the handler.
must_block(risk, cfg) == risk >= cfg.anomaly_block_threshold

-----------------------------------------------------------------------------
(* RealtimeBehaviorService: helpers *)

\* _record_event: appendleft on a deque of bounded length, of which the
\* model keeps the length.
record_event(events, event_type) ==
    IF events >= RecentEventsMaxLen THEN events ELSE events + 1

\* The identity-mismatch guard of _process_message.
user_mismatch(auth_user, claimed_user) ==
    Truthy(auth_user) /\ Truthy(claimed_user) /\ auth_user # claimed_user

\* An inbound object frame: its type and the members the handlers read.
Message(type, userId, sessionId, batch) ==
    [type |-> type, userId |-> userId, sessionId |-> sessionId, batch |-> batch]

\* The inbound object frames a client sends: behavioural batches of alice
\* in either session, good or malformed, and of nobody (no userId);
\* user_authentication of alice, of nobody and of the empty user id;
\* feedback of alice and bob with and without behavioralData; a frame of
\* an unknown type.
Messages ==
    {Message("behavioral_data", "alice", sid, b) : sid \in SessionIds, b \in {"ok", "malformed"}}
    \cup {Message("behavioral_data", Null, "s1", "ok")}
    \cup {Message("user_authentication", u, "s1", "absent") : u \in {"alice", Null, EmptyStr}}
    \cup {Message("feedback", u, "s1", b) : u \in Names, b \in {"ok", "absent"}}
    \cup {Message("other", Null, "s1", "absent")}

\* The frames sent where scoring is examined: behavioural batches and
\* user_authentication (which creates a profile) of every user id.
ScoringMessages ==
    {Message("behavioral_data", u, "s1", b) : u \in UserIds, b \in {"ok", "malformed"}}
    \cup {Message("user_authentication", u, "s1", "absent") : u \in UserIds}

\* The first frame of a connection: what it holds.
AuthFrameKinds == {"invalid_json", "nonobject", "no_token", "bad_token",
                   "legacy_token", "token"}

\* The locals of a handler suspended at an await while it handles frame fid.
Locals(type, m, risk, target, fid, frame) ==
    [type |-> type, userId |-> m.userId, sessionId |-> m.sessionId, risk |-> risk,
     target |-> target, fid |-> fid, frame |-> frame]

\* The end of handle_client, by return ("returned") or by an exception that
\* nothing catches ("raised"): its finally block.  m, ev and sockets are the metrics, the
\* recent events and the sockets as the handler left them; locals names the
\* call that raised (NoLocals when the handler ends otherwise).
ExitHandler(c, how, m, ev, sockets, locals) ==
    /\ pc' = [pc EXCEPT ![c] = how]
    /\ cur' = [cur EXCEPT ![c] = locals]
    /\ connection_auth' = [connection_auth EXCEPT ![c] = NoClaims]
    /\ metrics' = [m EXCEPT !.connections_active = Max(0, @ - 1)]
    /\ recent_events' = ev
    /\ ws' = sockets

\* The number of inbound frames received so far; the next one is frames + 1.
frames == Len(received)

\* The entry of received for a frame of connection c: what _process_message
\* did with it ("invalid_json", "nonobject", "mismatch", "unknown",
\* "analyze_raised", "result", "block", "served", "update_raised", or the
\* audit event type of the blocked-user path it took) and its userId
\* member; created tells whether the handler created the UserProfile of
\* that userId.  received is bookkeeping of the model.
Received(c, what, m) ==
    [conn |-> c, what |-> what, userId |-> m.userId, created |-> FALSE]

\* A faulty presence test, which creates the profile whether or not the
\* user has one: the property of racing creations must tell it from
\* creates_profile.
creates_profile_unchecked(profiles, user_id) == TRUE

\* The presence test in front of create_user_profile: the handler creates
\* the profile when the user has none.  The test and the creation are one
\* uninterrupted piece of the handler (there is no await between them).
creates_profile(profiles, user_id) == user_id \notin profiles

\* The entry of received for a frame whose handler reached the presence test.
Served(c, m) ==
    [Received(c, "served", m) EXCEPT !.created = creates_profile(user_profiles, m.userId)]

\* The members of a frame that carries none.
NoMessage == [type |-> "other", userId |-> Null, sessionId |-> "s1", batch |-> "absent"]

-----------------------------------------------------------------------------
(* Initial state: the service has just been constructed over an existing     *)
(* database in which alice has an account.                                   *)

MetricsZero ==
    [connections_total |-> 0, connections_active |-> 0, auth_success |-> 0,
     auth_failed |-> 0, messages_total |-> 0, messages_behavioral |-> 0,
     messages_feedback |-> 0, messages_user_auth |-> 0, anomalies_blocked |-> 0]

\* Everything but the configuration.
InitService ==
    /\ users = [u \in Names |-> IF u = "alice" THEN "active" ELSE "none"]
    /\ roles = [u \in Names |-> "user"]
    /\ security_events = <<>>
    /\ behavioral_profiles = [s \in SessionIds |-> NoRow]
    /\ user_profiles = {}
    /\ user_sessions = [s \in SessionIds |-> NoSession]
    /\ connection_auth = [c \in Conns |-> NoClaims]
    /\ metrics = MetricsZero
    /\ recent_events = 0
    /\ pc = [c \in Conns |-> "init"]
    /\ cur = [c \in Conns |-> NoLocals]
    /\ ws = [c \in Conns |-> "idle"]
    /\ outbox = [c \in Conns |-> <<>>]
    /\ received = <<>>

Settings(high, block) == [high_risk_threshold |-> high, anomaly_block_threshold |-> block]

\* No batch has been handed to the extractor and nothing has been stored
\* directly.
NoBatch == [keystrokeData |-> <<>>, mouseData |-> <<>>]
NotExtracted == [call |-> "none", status |-> "pending", vec |-> [n \in {} |-> Fin(0)]]

InitLibrary ==
    /\ raw_events = NoBatch
    /\ features = NotExtracted
    /\ saves = <<>>

\* The default thresholds and a fitted global model (load_models found one).
Init ==
    /\ InitService
    /\ InitLibrary
    /\ settings = Settings(DefaultHighRiskThreshold, DefaultAnomalyBlockThreshold)
    /\ is_trained = TRUE

\* Every configuration: each pair of thresholds, with and without a fitted
\* global model.
InitScoring ==
    /\ InitService
    /\ InitLibrary
    /\ settings \in {Settings(p[1], p[2]) : p \in ThresholdPairs}
    /\ is_trained \in BOOLEAN

-----------------------------------------------------------------------------
(* handle_client and _authenticate_connection *)

\* handle_client up to the first receive: accept, count, record.
Connect(c) ==
    /\ pc[c] = "init"
    /\ pc' = [pc EXCEPT ![c] = "auth_recv"]
    /\ ws' = [ws EXCEPT ![c] = "open"]
    /\ metrics' = [metrics EXCEPT !.connections_total = @ + 1,
                                  !.connections_active = @ + 1]
    /\ recent_events' = record_event(recent_events, "ws_connected")
    /\ UNCHANGED <<dbVars, cfgVars, libVars, roles, user_profiles, user_sessions, connection_auth,
                   cur, outbox, received>>

\* The same where the second connection arrives when the first has ended.
Accept(c) ==
    /\ c = "c2" => pc["c1"] = "done"
    /\ Connect(c)

\* _authenticate_connection: the first frame is not JSON, holds no token, or
\* holds a token that verify_access_token rejects and that is not AUTH_TOKEN.
\* The failure is counted and recorded; the close is the next await.
AuthFail(c, kind) ==
    /\ pc[c] = "auth_recv" /\ ws[c] = "open"
    /\ kind \in {"invalid_json", "no_token", "bad_token"}
    /\ metrics' = [metrics EXCEPT !.auth_failed = @ + 1]
    /\ recent_events' = record_event(recent_events, "ws_auth_failed")
    /\ pc' = [pc EXCEPT ![c] = "auth_close"]
    /\ UNCHANGED <<dbVars, cfgVars, libVars, roles, user_profiles, user_sessions, connection_auth,
                   cur, ws, outbox, received>>

\* The close(code=1008) of a failed authentication, then WebSocketDisconnect
\* is raised, caught by handle_client and recorded, and the finally block runs.
AuthClose(c) ==
    /\ pc[c] = "auth_close"
    /\ ExitHandler(c, "returned", metrics, record_event(recent_events, "ws_disconnected"),
                   [ws EXCEPT ![c] = IF @ = "open" THEN "closed_1008" ELSE @], NoLocals)
    /\ UNCHANGED <<dbVars, cfgVars, libVars, roles, user_profiles, user_sessions, outbox, received>>

\* The first frame is JSON but not an object (auth_data.get raises
\* AttributeError), or its token is not a string (.strip raises): nothing in
\* handle_client catches it, only the finally block runs.
AuthCrash(c) ==
    /\ pc[c] = "auth_recv" /\ ws[c] = "open"
    /\ ExitHandler(c, "raised", metrics, recent_events, ws,
                   [NoLocals EXCEPT !.type = "auth_nonobject"])
    /\ UNCHANGED <<dbVars, cfgVars, libVars, roles, user_profiles, user_sessions, outbox, received>>

\* The server ends a connection whose handler has returned or raised: the
\* socket is closed and the handler's frame is gone.
ServerClose(c) ==
    /\ pc[c] \in {"returned", "raised"}
    /\ pc' = [pc EXCEPT ![c] = "done"]
    /\ ws' = [ws EXCEPT ![c] = "closed"]
    /\ cur' = [cur EXCEPT ![c] = NoLocals]
    /\ UNCHANGED <<dbVars, cfgVars, libVars, roles, user_profiles, user_sessions, connection_auth,
                   metrics, recent_events, outbox, received>>

\* The token verifies (sub is its subject), or verification fails and the
\* token equals the AUTH_TOKEN environment variable (the legacy static
\* token: the claims are {sub: None, user_id: None}).  The claims are bound
\* to the connection and the message loop starts.
AuthSuccess(c, kind, sub) ==
    /\ pc[c] = "auth_recv" /\ ws[c] = "open"
    /\ \/ kind = "token" /\ sub \in TokenHolders
       \/ kind = "legacy_token" /\ sub = Null
    /\ connection_auth' = [connection_auth EXCEPT ![c] = [sub |-> sub, bound |-> TRUE]]
    /\ metrics' = [metrics EXCEPT !.auth_success = @ + 1]
    /\ recent_events' = record_event(recent_events, "ws_authenticated")
    /\ pc' = [pc EXCEPT ![c] = "recv"]
    /\ UNCHANGED <<dbVars, cfgVars, libVars, roles, user_profiles, user_sessions, cur, ws, outbox,
                   received>>

\* The client leaves while the handler waits in receive_text, which raises
\* WebSocketDisconnect: handle_client records it and its finally block runs.
ReceiveDisconnect(c) ==
    /\ pc[c] \in {"auth_recv", "recv"} /\ ws[c] = "open"
    /\ ExitHandler(c, "returned", metrics, record_event(recent_events, "ws_disconnected"),
                   [ws EXCEPT ![c] = "gone"], NoLocals)
    /\ UNCHANGED <<dbVars, cfgVars, libVars, roles, user_profiles, user_sessions, outbox, received>>

\* receive_text on a socket the service has closed: the framework raises
\* WebSocketDisconnect (recorded) or RuntimeError (not caught), by its version.
ReceiveAfterClose(c, how) ==
    /\ pc[c] = "recv" /\ ws[c] = "closed_1008"
    /\ how \in {"returned", "raised"}
    /\ ExitHandler(c, how, metrics,
                   IF how = "returned" THEN record_event(recent_events, "ws_disconnected")
                   ELSE recent_events, ws, NoLocals)
    /\ UNCHANGED <<dbVars, cfgVars, libVars, roles, user_profiles, user_sessions, outbox, received>>

-----------------------------------------------------------------------------
(* _process_message *)

\* A faulty loop, which takes the next frame while the reply to the previous
\* one is still to be sent: the property of one frame at a time must tell it
\* from RecvReady.
RecvReadyEarly(c) == pc[c] \in {"recv", "send"} /\ ws[c] = "open" /\ frames < MaxFrames

\* The loop of handle_client has a frame to receive.
RecvReady(c) == pc[c] = "recv" /\ ws[c] = "open" /\ frames < MaxFrames

\* A faulty handling of a frame that is not JSON, which treats it as a
\* failed authentication does (recorded, close(1008), the handler ends): the
\* property of non-parseable frames must tell it from ReceiveInvalidJson.
ReceiveInvalidJsonCloses(c) ==
    /\ RecvReady(c)
    /\ received' = Append(received, Received(c, "invalid_json", NoMessage))
    /\ ExitHandler(c, "returned", [metrics EXCEPT !.messages_total = @ + 1],
                   record_event(recent_events, "ws_message_invalid"),
                   [ws EXCEPT ![c] = "closed_1008"], NoLocals)
    /\ UNCHANGED <<dbVars, cfgVars, libVars, roles, user_profiles, user_sessions, outbox>>

\* The frame is not JSON: counted, recorded, and an error frame is the next await.
ReceiveInvalidJson(c) ==
    /\ RecvReady(c)
    /\ LET fid == frames + 1 IN
       /\ received' = Append(received, Received(c, "invalid_json", NoMessage))
       /\ cur' = [cur EXCEPT ![c] =
                    Locals("invalid_json", NoMessage, 0, "none", fid,
                           OutFrame("error", Null, Null, 0, "none", fid))]
    /\ metrics' = [metrics EXCEPT !.messages_total = @ + 1]
    /\ recent_events' = record_event(recent_events, "ws_message_invalid")
    /\ pc' = [pc EXCEPT ![c] = "send"]
    /\ UNCHANGED <<dbVars, cfgVars, libVars, roles, user_profiles, user_sessions, connection_auth,
                   ws, outbox>>

\* The frame is JSON but not an object (a list, a number, a string, null):
\* data.get raises AttributeError, which neither _process_message nor
\* handle_client catches.
ReceiveNonObject(c) ==
    /\ RecvReady(c)
    /\ received' = Append(received, Received(c, "nonobject", NoMessage))
    /\ ExitHandler(c, "raised", [metrics EXCEPT !.messages_total = @ + 1],
                   recent_events, ws,
                   [NoLocals EXCEPT !.type = "nonobject"])
    /\ UNCHANGED <<dbVars, cfgVars, libVars, roles, user_profiles, user_sessions, outbox>>

\* The frame names a user other than the token's subject: recorded, and the
\* close is the next await.
ReceiveMismatch(c, m) ==
    /\ RecvReady(c)
    /\ user_mismatch(connection_auth[c].sub, m.userId)
    /\ LET fid == frames + 1 IN
       /\ received' = Append(received, Received(c, "mismatch", m))
       /\ cur' = [cur EXCEPT ![c] = Locals("mismatch", m, 0, "none", fid, NoLocals.frame)]
    /\ metrics' = [metrics EXCEPT !.messages_total = @ + 1]
    /\ recent_events' = record_event(recent_events, "ws_user_mismatch")
    /\ pc' = [pc EXCEPT ![c] = "close_mismatch"]
    /\ UNCHANGED <<dbVars, cfgVars, libVars, roles, user_profiles, user_sessions, connection_auth,
                   ws, outbox>>

\* websocket.close(code=1008) of the mismatch guard, then _process_message
\* returns to the loop.
CloseMismatch(c) ==
    /\ pc[c] = "close_mismatch"
    /\ ws' = [ws EXCEPT ![c] = IF @ = "open" THEN "closed_1008" ELSE @]
    /\ UNCHANGED received
    /\ pc' = [pc EXCEPT ![c] = "recv"]
    /\ cur' = [cur EXCEPT ![c] = NoLocals]
    /\ UNCHANGED <<dbVars, cfgVars, libVars, roles, user_profiles, user_sessions, connection_auth,
                   metrics, recent_events, outbox>>

\* A type that is none of the three (or no type): recorded, nothing else.
ReceiveUnknown(c, m) ==
    /\ RecvReady(c)
    /\ m.type = "other"
    /\ ~user_mismatch(connection_auth[c].sub, m.userId)
    /\ received' = Append(received, Received(c, "unknown", m))
    /\ metrics' = [metrics EXCEPT !.messages_total = @ + 1]
    /\ recent_events' = record_event(recent_events, "ws_message_unknown")
    /\ UNCHANGED <<dbVars, cfgVars, libVars, roles, user_profiles, user_sessions, connection_auth,
                   pc, cur, ws, outbox>>

\* websocket.send_text of a handler's reply; _process_message returns after it.
Send(c) ==
    /\ pc[c] = "send" /\ ws[c] = "open"
    /\ outbox' = [outbox EXCEPT ![c] = Append(@, cur[c].frame)]
    /\ UNCHANGED received
    /\ pc' = [pc EXCEPT ![c] = "recv"]
    /\ cur' = [cur EXCEPT ![c] = NoLocals]
    /\ UNCHANGED <<dbVars, cfgVars, libVars, roles, user_profiles, user_sessions, connection_auth,
                   metrics, recent_events, ws>>

\* send_text on a socket that another handler's _terminate_session closed
\* or that the client leaves: the framework raises WebSocketDisconnect
\* (recorded by handle_client) or another exception (not caught), by its
\* version.
SendFails(c, how) ==
    /\ pc[c] = "send"
    /\ how \in {"returned", "raised"}
    /\ ExitHandler(c, how, metrics,
                   IF how = "returned" THEN record_event(recent_events, "ws_disconnected")
                   ELSE recent_events,
                   [ws EXCEPT ![c] = IF @ = "open" THEN "gone" ELSE @],
                   IF how = "returned" THEN NoLocals ELSE [NoLocals EXCEPT !.type = "send_text"])
    /\ UNCHANGED received
    /\ UNCHANGED <<dbVars, cfgVars, libVars, roles, user_profiles, user_sessions, outbox>>

-----------------------------------------------------------------------------
(* _terminate_session *)

\* _terminate_session up to its first await, called by the handler of frame
\* fid with the session table sess and the recent events ev as the handler
\* left them.  The socket to tell and close is the one stored in
\* the session entry of session_id; without an entry there is no await: the
\* event is recorded, the pop finds nothing and the handler returns.
terminate_session(c, fid, m, risk, sess, ev) ==
    LET target == IF sess[m.sessionId].present THEN sess[m.sessionId].websocket
                  ELSE "none" IN
    IF target # "none"
    THEN /\ pc' = [pc EXCEPT ![c] = "term_send"]
         /\ cur' = [cur EXCEPT ![c] =
                      Locals("terminate", m, risk, target, fid,
                             OutFrame("session_terminated", m.sessionId, m.userId,
                                      risk, "none", fid))]
         /\ user_sessions' = sess
         /\ recent_events' = ev
    ELSE /\ pc' = pc
         /\ cur' = cur
         /\ user_sessions' = [sess EXCEPT ![m.sessionId] = NoSession]
         /\ recent_events' = record_event(ev, "session_terminated")

\* A faulty termination, whose send is not guarded: a failure of send_text
\* leaves _terminate_session and ends the handler, with neither the close nor
\* the pop.  The property of termination must tell it from TermSend.
TermSendUnguarded(c) ==
    /\ pc[c] = "term_send"
    /\ LET t == cur[c].target IN
       IF ws[t] = "open"
       THEN /\ outbox' = [outbox EXCEPT ![t] = Append(@, cur[c].frame)]
            /\ pc' = [pc EXCEPT ![c] = "term_close"]
            /\ UNCHANGED <<connection_auth, metrics, recent_events, cur, ws>>
       ELSE /\ outbox' = outbox
            /\ ExitHandler(c, "raised", metrics, recent_events, ws, cur[c])
    /\ UNCHANGED <<dbVars, cfgVars, libVars, roles, user_profiles, user_sessions, received>>

\* ws.send_text(payload) inside try/except: a failure is swallowed.
TermSend(c) ==
    /\ pc[c] = "term_send"
    /\ LET t == cur[c].target IN
       outbox' = IF ws[t] = "open"
                 THEN [outbox EXCEPT ![t] = Append(@, cur[c].frame)]
                 ELSE outbox
    /\ pc' = [pc EXCEPT ![c] = "term_close"]
    /\ UNCHANGED <<dbVars, cfgVars, libVars, roles, user_profiles, user_sessions, connection_auth,
                   metrics, recent_events, cur, ws, received>>

\* ws.close(code=1008) inside try/except, then the event and the pop of the
\* session entry; the handler returns to the loop.
TermClose(c) ==
    /\ pc[c] = "term_close"
    /\ LET t == cur[c].target IN
       ws' = [ws EXCEPT ![t] = IF @ = "open" THEN "closed_1008" ELSE @]
    /\ recent_events' = record_event(recent_events, "session_terminated")
    /\ user_sessions' = [user_sessions EXCEPT ![cur[c].sessionId] = NoSession]
    /\ UNCHANGED received
    /\ pc' = [pc EXCEPT ![c] = "recv"]
    /\ cur' = [cur EXCEPT ![c] = NoLocals]
    /\ UNCHANGED <<dbVars, cfgVars, libVars, roles, user_profiles, connection_auth, metrics, outbox>>

-----------------------------------------------------------------------------
(* The three message handlers *)

\* The frame passed the mismatch guard and is dispatched to the handler of type.
Dispatched(c, m, type) ==
    /\ RecvReady(c)
    /\ m.type = type
    /\ ~user_mismatch(connection_auth[c].sub, m.userId)

\* metrics after the dispatch of a frame to the handler counted by counter.
Counted(counter) ==
    [metrics EXCEPT !.messages_total = @ + 1, ![counter] = @ + 1]

\* A faulty blocked-user path, which reaches the analyzer and leaves a
\* profile for the user before it terminates the session: the property of
\* frames of blocked users must tell it from blocked_user_path.
blocked_user_path_profiling(c, m, event_type, ev) ==
    LET fid == frames + 1 IN
    /\ security_events' =
          log_security_event(security_events, m.userId, event_type, m.sessionId, fid)
    /\ received' = Append(received, Received(c, event_type, m))
    /\ terminate_session(c, fid, m, 100, user_sessions, ev)
    /\ user_profiles' = update_user_profile(user_profiles, m.userId)
    /\ UNCHANGED <<users, behavioral_profiles, cfgVars, libVars, roles,
                   connection_auth, ws, outbox>>

\* The blocked-user path shared by the three handlers: the audit event of
\* the handler's kind, then _terminate_session with risk 1.0.
blocked_user_path(c, m, event_type, ev) ==
    LET fid == frames + 1 IN
    /\ security_events' =
          log_security_event(security_events, m.userId, event_type, m.sessionId, fid)
    /\ received' = Append(received, Received(c, event_type, m))
    /\ terminate_session(c, fid, m, 100, user_sessions, ev)
    /\ UNCHANGED <<users, behavioral_profiles, cfgVars, libVars, roles, user_profiles,
                   connection_auth, ws, outbox>>

\* _handle_behavioral_data, the user is blocked.
BehavioralBlocked(c, m) ==
    /\ Dispatched(c, m, "behavioral_data")
    /\ is_user_blocked(m.userId)
    /\ metrics' = Counted("messages_behavioral")
    /\ blocked_user_path(c, m, "BLOCKED_USER_ACTIVITY",
                         record_event(recent_events, "behavioral_received"))

\* _handle_behavioral_data, analyze_real_time raises (the extractor met a
\* malformed event): nothing catches it.
BehavioralRaise(c, m) ==
    /\ Dispatched(c, m, "behavioral_data")
    /\ ~is_user_blocked(m.userId)
    /\ analyze_real_time(m.batch, m.userId, user_profiles, is_trained) = {}
    /\ received' = Append(received, Received(c, "analyze_raised", m))
    /\ ExitHandler(c, "raised", Counted("messages_behavioral"),
                   record_event(recent_events, "behavioral_received"), ws,
                   [NoLocals EXCEPT !.type = "analyze_real_time"])
    /\ UNCHANGED <<dbVars, cfgVars, libVars, roles, user_profiles, user_sessions, outbox>>

\* The session entry written by _handle_behavioral_data.
session_entry(c, m, risk) ==
    [username |-> m.userId, websocket |-> c, risk_score |-> risk, present |-> TRUE]

\* The behavioral_profiles table after the handler's get_user / save step.
saved_profiles(m, fid, risk) ==
    IF get_user_success(m.userId)
    THEN save_behavioral_profile(behavioral_profiles, m.userId, m.sessionId, fid, risk)
    ELSE behavioral_profiles

\* _handle_behavioral_data, the score is below the block threshold: the
\* session entry and the profile row are written, the analysis_result is the
\* next await.
BehavioralResult(c, m, risk) ==
    /\ Dispatched(c, m, "behavioral_data")
    /\ ~is_user_blocked(m.userId)
    /\ risk \in analyze_real_time(m.batch, m.userId, user_profiles, is_trained)
    /\ ~must_block(risk, settings)
    /\ LET fid == frames + 1 IN
       /\ received' = Append(received, Received(c, "result", m))
       /\ behavioral_profiles' = saved_profiles(m, fid, risk)
       /\ cur' = [cur EXCEPT ![c] =
                    Locals("behavioral_data", m, risk, "none", fid,
                           OutFrame("analysis_result", m.sessionId, Null, risk,
                                    alert_level(risk, settings), fid))]
    /\ metrics' = Counted("messages_behavioral")
    /\ recent_events' = record_event(record_event(recent_events, "behavioral_received"),
                                     "behavioral_scored")
    /\ user_sessions' = [user_sessions EXCEPT ![m.sessionId] = session_entry(c, m, risk)]
    /\ pc' = [pc EXCEPT ![c] = "send"]
    /\ UNCHANGED <<users, security_events, cfgVars, libVars, roles, user_profiles,
                   connection_auth, ws, outbox>>

\* _handle_behavioral_data, the score reaches the block threshold: counted,
\* recorded, block_user, the REALTIME_ANOMALY_BLOCK event, the alert, then
\* _terminate_session.  An alert that raises ends the handler there.
BehavioralBlock(c, m, risk, alert) ==
    /\ Dispatched(c, m, "behavioral_data")
    /\ ~is_user_blocked(m.userId)
    /\ risk \in analyze_real_time(m.batch, m.userId, user_profiles, is_trained)
    /\ must_block(risk, settings)
    /\ alert \in AlertOutcomes
    /\ LET fid == frames + 1
           sess == [user_sessions EXCEPT ![m.sessionId] = session_entry(c, m, risk)]
           ev == record_event(record_event(record_event(recent_events,
                     "behavioral_received"), "behavioral_scored"), "behavioral_blocked")
           m2 == [Counted("messages_behavioral") EXCEPT !.anomalies_blocked = @ + 1]
       IN
       /\ received' = Append(received, Received(c, "block", m))
       /\ behavioral_profiles' = saved_profiles(m, fid, risk)
       /\ users' = block_user_users(users, m.userId)
       /\ security_events' =
             log_security_event(
                 block_user_events(security_events, m.userId, m.sessionId, fid),
                 m.userId, "REALTIME_ANOMALY_BLOCK", m.sessionId, fid)
       /\ IF alert = "raised"
          THEN /\ user_sessions' = sess
               /\ ExitHandler(c, "raised", m2, ev, ws,
                              [NoLocals EXCEPT !.type = "send_security_alert", !.fid = fid])
          ELSE /\ metrics' = m2
               /\ terminate_session(c, fid, m, risk, sess, ev)
               /\ UNCHANGED <<connection_auth, ws>>
    /\ UNCHANGED <<cfgVars, libVars, roles, user_profiles, outbox>>

\* _handle_user_authentication, the user is blocked.
UserAuthBlocked(c, m) ==
    /\ Dispatched(c, m, "user_authentication")
    /\ is_user_blocked(m.userId)
    /\ metrics' = Counted("messages_user_auth")
    /\ blocked_user_path(c, m, "BLOCKED_USER_AUTH_ATTEMPT",
                         record_event(recent_events, "user_auth_message"))

\* _handle_user_authentication otherwise: a profile is created for the
\* userId (None included) unless it has one; authentication_success is the
\* next await.
UserAuthentication(c, m) ==
    /\ Dispatched(c, m, "user_authentication")
    /\ ~is_user_blocked(m.userId)
    /\ LET fid == frames + 1 IN
       /\ received' = Append(received, Served(c, m))
       /\ cur' = [cur EXCEPT ![c] =
                    Locals("user_authentication", m, 0, "none", fid,
                           OutFrame("authentication_success", Null, m.userId,
                                    0, "none", fid))]
    /\ user_profiles' = update_user_profile(user_profiles, m.userId)
    /\ metrics' = Counted("messages_user_auth")
    /\ recent_events' = record_event(record_event(recent_events, "user_auth_message"),
                                     "profile_state")
    /\ pc' = [pc EXCEPT ![c] = "send"]
    /\ UNCHANGED <<dbVars, cfgVars, libVars, roles, user_sessions, connection_auth, ws, outbox>>

\* _handle_feedback, the user is blocked.
FeedbackBlocked(c, m) ==
    /\ Dispatched(c, m, "feedback")
    /\ is_user_blocked(m.userId)
    /\ metrics' = Counted("messages_feedback")
    /\ blocked_user_path(c, m, "BLOCKED_USER_FEEDBACK", recent_events)

\* _handle_feedback, update_user_profile raises (behavioralData is missing):
\* nothing catches it.
FeedbackRaise(c, m) ==
    /\ Dispatched(c, m, "feedback")
    /\ ~is_user_blocked(m.userId)
    /\ update_user_profile_raises(m.batch)
    /\ received' = Append(received, Received(c, "update_raised", m))
    /\ ExitHandler(c, "raised", Counted("messages_feedback"), recent_events, ws,
                   [NoLocals EXCEPT !.type = "update_user_profile"])
    /\ UNCHANGED <<dbVars, cfgVars, libVars, roles, user_profiles, user_sessions, outbox>>

\* _handle_feedback otherwise: the profile is created or refitted;
\* feedback_received is the next await.
Feedback(c, m) ==
    /\ Dispatched(c, m, "feedback")
    /\ ~is_user_blocked(m.userId)
    /\ ~update_user_profile_raises(m.batch)
    /\ LET fid == frames + 1 IN
       /\ received' = Append(received, Served(c, m))
       /\ cur' = [cur EXCEPT ![c] =
                    Locals("feedback", m, 0, "none", fid,
                           OutFrame("feedback_received", Null, Null, 0,
                                    "none", fid))]
    /\ user_profiles' = update_user_profile(user_profiles, m.userId)
    /\ metrics' = Counted("messages_feedback")
    /\ recent_events' = record_event(recent_events, "profile_updated")
    /\ pc' = [pc EXCEPT ![c] = "send"]
    /\ UNCHANGED <<dbVars, cfgVars, libVars, roles, user_sessions, connection_auth, ws, outbox>>

-----------------------------------------------------------------------------
(* The service under the default configuration: two connections, one after  *)
(* the other, sending any frame of Messages.                                 *)

Next ==
    \/ \E c \in Conns :
          \/ Accept(c)
          \/ \E kind \in AuthFrameKinds : AuthFail(c, kind)
          \/ AuthClose(c)
          \/ AuthCrash(c)
          \/ ServerClose(c)
          \/ \E kind \in AuthFrameKinds, sub \in Names \cup {Null} : AuthSuccess(c, kind, sub)
          \/ ReceiveDisconnect(c)
          \/ \E how \in {"returned", "raised"} : ReceiveAfterClose(c, how)
          \/ ReceiveInvalidJson(c)
          \/ ReceiveNonObject(c)
          \/ CloseMismatch(c)
          \/ Send(c)
          \/ \E how \in {"returned", "raised"} : SendFails(c, how)
          \/ TermSend(c)
          \/ TermClose(c)
          \/ \E m \in Messages :
                \/ ReceiveMismatch(c, m)
                \/ ReceiveUnknown(c, m)
                \/ BehavioralBlocked(c, m)
                \/ BehavioralRaise(c, m)
                \/ \E risk \in SampledRisks : BehavioralResult(c, m, risk)
                \/ \E risk \in SampledRisks, alert \in AlertOutcomes :
                      BehavioralBlock(c, m, risk, alert)
                \/ UserAuthBlocked(c, m)
                \/ UserAuthentication(c, m)
                \/ FeedbackBlocked(c, m)
                \/ FeedbackRaise(c, m)
                \/ Feedback(c, m)

Spec == Init /\ [][Next]_vars

-----------------------------------------------------------------------------
(* Scoring under every configuration: one connection sending behavioural    *)
(* batches and user_authentication frames of every user id.                  *)

NextScoring ==
    \/ Accept("c1")
    \/ \E kind \in AuthFrameKinds, sub \in Names \cup {Null} : AuthSuccess("c1", kind, sub)
    \/ ReceiveDisconnect("c1")
    \/ \E how \in {"returned", "raised"} : ReceiveAfterClose("c1", how)
    \/ ServerClose("c1")
    \/ Send("c1")
    \/ TermSend("c1")
    \/ TermClose("c1")
    \/ \E m \in ScoringMessages :
          \/ ReceiveMismatch("c1", m)
          \/ BehavioralRaise("c1", m)
          \/ \E risk \in Risks \cup {0} : BehavioralResult("c1", m, risk)
          \/ \E risk \in Risks, alert \in AlertOutcomes : BehavioralBlock("c1", m, risk, alert)
          \/ UserAuthentication("c1", m)
    \/ CloseMismatch("c1")

SpecScoring == InitScoring /\ [][NextScoring]_vars

-----------------------------------------------------------------------------
(* Two connections at the same time, both with a token of alice, sending     *)
(* behavioural batches and user_authentication frames of alice in either     *)
(* session, and a behavioural batch that names no user: the handlers         *)
(* interleave at their awaits.                                               *)

ConcurrentMessages ==
    {Message("behavioral_data", "alice", sid, "ok") : sid \in SessionIds}
    \cup {Message("user_authentication", "alice", "s1", "absent")}
    \cup {Message("behavioral_data", Null, "s1", "ok")}

NextConcurrent ==
    \E c \in Conns :
        \/ Connect(c)
        \/ AuthSuccess(c, "token", "alice")
        \/ ReceiveDisconnect(c)
        \/ \E how \in {"returned", "raised"} : ReceiveAfterClose(c, how)
        \/ ServerClose(c)
        \/ Send(c)
        \/ TermSend(c)
        \/ TermClose(c)
        \/ \E m \in ConcurrentMessages :
              \/ BehavioralBlocked(c, m)
              \/ \E risk \in SampledRisks : BehavioralResult(c, m, risk)
              \/ \E risk \in SampledRisks : BehavioralBlock(c, m, risk, "delivered")
              \/ UserAuthBlocked(c, m)
              \/ UserAuthentication(c, m)

SpecConcurrent == Init /\ [][NextConcurrent]_vars

-----------------------------------------------------------------------------
(* The feature extractor on its own: a batch of keystroke events and a batch *)
(* of pointer events are drawn, and the three entry points are applied.      *)

MaxShortBatch == 2

keydown(key, t) == Event("keydown", key, t, Absent, Absent, Absent)
keyup(key, t, dwellTime) == Event("keyup", key, t, dwellTime, Absent, Absent)
mousemove(x, y, t) == Event("mousemove", "", t, Absent, x, y)
click(t) == Event("click", "", t, Absent, Absent, Absent)

\* The keystroke events a batch is made of: plain presses and releases, a
\* release stamped 1e999 (which json.loads reads as infinity), a press whose
\* timestamp is null, a press without timestamp, a number in place of an
\* event, a release that carries its dwellTime, and one whose dwellTime is null.
KeystrokeChoices ==
    {keydown("a", Fin(0)), keyup("a", Fin(90), Absent), keyup("a", PosInf, Absent),
     keydown("a", JsonNull), keydown("a", Absent), NonObject,
     keyup("b", Fin(5000), Fin(80)), keyup("a", Fin(95), JsonNull)}

\* Three keys typed one after the other, the last after a pause.
TypedKeys ==
    <<keydown("a", Fin(0)), keyup("a", Fin(100), Absent),
      keydown("b", Fin(200)), keyup("b", Fin(350), Absent),
      keydown("Backspace", Fin(1200)), keyup("Backspace", Fin(1300), Absent)>>

MouseChoices ==
    {mousemove(Fin(0), Fin(0), Fin(0)), mousemove(Fin(3), Fin(4), Fin(10)),
     click(Fin(20)), mousemove(Absent, Fin(7), Fin(30)), click(JsonNull),
     click(Absent), NonObject}

\* The pointer goes right and down, turns back, and clicks twice.
PointerTrace ==
    <<mousemove(Fin(0), Fin(0), Fin(0)), mousemove(Fin(30), Fin(40), Fin(10)),
      mousemove(Fin(0), Fin(40), Fin(30)), click(Fin(40)), click(Fin(60))>>

\* Every batch of at most MaxShortBatch events of the choices.
ShortBatches(choices) ==
    UNION {[1..n -> choices] : n \in 0..MaxShortBatch}

\* A full trace, the trace with one event replaced, and the trace with one
\* event more.
NearTraces(trace, choices) ==
    {trace}
    \cup {[trace EXCEPT ![i] = e] : i \in 1..Len(trace), e \in choices}
    \cup {Append(trace, e) : e \in choices}

KeystrokeBatches == ShortBatches(KeystrokeChoices) \cup NearTraces(TypedKeys, KeystrokeChoices)
MouseBatches == ShortBatches(MouseChoices) \cup NearTraces(PointerTrace, MouseChoices)

InitExtract ==
    /\ InitService
    /\ settings = Settings(DefaultHighRiskThreshold, DefaultAnomalyBlockThreshold)
    /\ is_trained = TRUE
    /\ \/ \E k \in KeystrokeBatches, m \in {<<>>, PointerTrace} :
             raw_events = [keystrokeData |-> k, mouseData |-> m]
       \/ \E k \in {<<>>, TypedKeys}, m \in MouseBatches :
             raw_events = [keystrokeData |-> k, mouseData |-> m]
    /\ features = NotExtracted
    /\ saves = <<>>

Extracted(call, result) == [call |-> call, status |-> result.status, vec |-> result.vec]

ExtractKeystroke ==
    /\ features' = Extracted("keystroke", extract_keystroke_features(raw_events.keystrokeData))
    /\ UNCHANGED <<serviceVars, raw_events, saves>>

ExtractMouse ==
    /\ features' = Extracted("mouse", extract_mouse_features(raw_events.mouseData))
    /\ UNCHANGED <<serviceVars, raw_events, saves>>

GetFeatureVector ==
    /\ features' = Extracted("vector", get_feature_vector(raw_events.keystrokeData,
                                                          raw_events.mouseData))
    /\ UNCHANGED <<serviceVars, raw_events, saves>>

NextExtract ==
    \/ ExtractKeystroke
    \/ ExtractMouse
    \/ GetFeatureVector

SpecExtract == InitExtract /\ [][NextExtract]_vars

-----------------------------------------------------------------------------
(* The profile store on its own: save_behavioral_profile called directly,    *)
(* any number of times up to MaxSaves, with any arguments of the sets below. *)

MaxSaves == 2

\* users.id of two accounts.
StoreUserIds == {1, 2}

\* The keystroke_data and mouse_data of a call: None, an empty list, lists of
\* events (an event is named, its members do not matter to the store).
KeystrokeLists == {Null, <<"k1">>, <<"k2", "k3">>}
MouseLists == {<<>>, <<"m1">>}

\* The sample of one call: its two lists.
Sample(keystroke_data, mouse_data) ==
    [keystroke_data |-> keystroke_data, mouse_data |-> mouse_data]

\* keystroke_data or []: None counts as the empty list.
OrEmpty(list) == IF list = Null THEN <<>> ELSE list

\* The list stored in a column of a row: each call's list appended to it by
\* extend, through the JSON text of the column.
RECURSIVE stored_list(_, _)
stored_list(samples, column) ==
    IF samples = <<>> THEN <<>>
    ELSE OrEmpty(Head(samples)[column]) \o stored_list(Tail(samples), column)

\* A call of save_behavioral_profile, as it was made.
SaveCall(user_id, session_id, keystroke_data, mouse_data, risk_score) ==
    [user_id |-> user_id, session_id |-> session_id,
     keystroke_data |-> keystroke_data, mouse_data |-> mouse_data,
     risk_score |-> risk_score]

Save(user_id, session_id, keystroke_data, mouse_data, risk_score) ==
    /\ Len(saves) < MaxSaves
    /\ behavioral_profiles' =
          save_behavioral_profile(behavioral_profiles, user_id, session_id,
                                  Sample(keystroke_data, mouse_data), risk_score)
    /\ saves' = Append(saves, SaveCall(user_id, session_id, keystroke_data,
                                       mouse_data, risk_score))
    /\ UNCHANGED <<users, roles, security_events, cfgVars, user_profiles, user_sessions,
                   connection_auth, metrics, recent_events, pc, cur, ws, outbox,
                   received, raw_events, features>>

NextStore ==
    \E user_id \in StoreUserIds, session_id \in SessionIds,
       keystroke_data \in KeystrokeLists, mouse_data \in MouseLists,
       risk_score \in SampledRisks :
        Save(user_id, session_id, keystroke_data, mouse_data, risk_score)

SpecStore == Init /\ [][NextStore]_vars

-----------------------------------------------------------------------------
(* The account operations of app/main.py over AuthDatabase, next to one      *)
(* WebSocket connection: registration, start-session, login, the role        *)
(* change of an administrator, direct calls of block_user and of             *)
(* save_behavioral_profile.                                                  *)

\* Rows the account operations may add to security_events before the model
\* stops them.
MaxAuditRows == 1

\* The rows of security_events written by account operations (cause 0).
IsAccountRow(row) == row.cause = 0
AccountRows == Len(SelectSeq(security_events, IsAccountRow))

\* Settings.initial_admin_username: the account that holds the admin role.
\* It is none of Names; its row is taken to exist and to be active.
InitialAdminUsername == "admin"

\* The users.role values an administrator sets here (two of ALLOWED_ROLES).
Roles == {"user", "admin"}

\* The risk_score of a login payload, in percent: below and above the
\* high-risk threshold.
LoginRisks == {50, 90}

\* A faulty registration, INSERT OR REPLACE in place of INSERT: an existing
\* row is replaced by a fresh one, which is active.  The property of
\* permanent blocks must tell it from create_user.
create_user_replacing(table, username) == [table EXCEPT ![username] = "active"]

\* create_user, the users table: the INSERT adds an active row; on an
\* existing username it raises IntegrityError and the table is as it was.
create_user(table, username) ==
    IF table[username] = "none" THEN [table EXCEPT ![username] = "active"] ELSE table

\* create_user, the role column of the row it inserts.
create_user_role(column, table, username, role) ==
    IF table[username] = "none" THEN [column EXCEPT ![username] = role] ELSE column

\* verify_user(username, password)["success"]: the row exists, is active and
\* the password matches; _update_last_login then writes last_login only.
verify_user(table, username, password_ok) == table[username] = "active" /\ password_ok

\* set_user_role: UPDATE users SET role = ? WHERE username = ?
set_user_role(column, table, username, role) ==
    IF table[username] # "none" THEN [column EXCEPT ![username] = role] ELSE column

\* get_or_create_user, the users table: an existing user is verified, a new
\* one is created.
get_or_create_user(table, username) ==
    IF get_user_success(username) THEN table ELSE create_user(table, username)

\* What the account operations leave alone: the service and the libraries.
accountFrame == <<settings, is_trained, user_profiles, user_sessions, connection_auth,
                  metrics, recent_events, pc, cur, ws, outbox, received, raw_events,
                  features>>

\* POST /register: create_user with the role of the username.
Register(username) ==
    /\ users' = create_user(users, username)
    /\ roles' = create_user_role(roles, users, username,
                                 IF username = InitialAdminUsername THEN "admin" ELSE "user")
    /\ UNCHANGED <<accountFrame, security_events, behavioral_profiles, saves>>

\* POST /start-session: refused for a blocked username; else
\* get_or_create_user, and the initial administrator is given its role.
StartSession(username, password_ok) ==
    /\ IF is_user_blocked(username)
       THEN UNCHANGED <<users, roles>>
       ELSE /\ users' = get_or_create_user(users, username)
            /\ roles' =
                 LET created == create_user_role(roles, users, username, "user")
                     success == IF get_user_success(username)
                                THEN verify_user(users, username, password_ok)
                                ELSE TRUE
                 IN IF success /\ username = InitialAdminUsername
                    THEN set_user_role(created, users', username, "admin")
                    ELSE created
    /\ UNCHANGED <<accountFrame, security_events, behavioral_profiles, saves>>

\* POST /login: refused for a blocked username; verify_user; a verified
\* login whose risk exceeds the high-risk threshold is logged and refused; the
\* initial administrator is given its role.
Login(username, password_ok, risk_score) ==
    LET success == verify_user(users, username, password_ok)
        high_risk == success /\ risk_score > settings.high_risk_threshold
    IN /\ ~is_user_blocked(username)
       /\ high_risk => AccountRows < MaxAuditRows
       /\ security_events' =
             IF high_risk
             THEN log_security_event(security_events, username, "HIGH_RISK_LOGIN", Null, 0)
             ELSE security_events
       /\ roles' = IF success /\ ~high_risk /\ username = InitialAdminUsername
                   THEN set_user_role(roles, users, username, "admin")
                   ELSE roles
       /\ UNCHANGED <<accountFrame, users, behavioral_profiles, saves>>

\* POST /admin/users/{username}/role by the administrator: set_user_role,
\* and ROLE_UPDATED in the administrator's name when a row was updated.
UpdateUserRole(username, role) ==
    /\ AccountRows < MaxAuditRows
    /\ roles' = set_user_role(roles, users, username, role)
    /\ security_events' =
          IF get_user_success(username)
          THEN log_security_event(security_events, InitialAdminUsername, "ROLE_UPDATED",
                                  Null, 0)
          ELSE security_events
    /\ UNCHANGED <<accountFrame, users, behavioral_profiles, saves>>

\* block_user called on any username, blocked already or not.
BlockUser(username) ==
    /\ AccountRows < MaxAuditRows
    /\ users' = block_user_users(users, username)
    /\ security_events' = block_user_events(security_events, username, Null, 0)
    /\ UNCHANGED <<accountFrame, roles, behavioral_profiles, saves>>

\* The frames of the connection: each type, in alice's name.
AccountMessages ==
    {Message(type, "alice", "s1", "ok") :
        type \in {"behavioral_data", "user_authentication", "feedback"}}

NextAccounts ==
    \/ \E username \in Names :
          \/ Register(username)
          \/ \E password_ok \in BOOLEAN : StartSession(username, password_ok)
          \/ \E password_ok \in BOOLEAN, risk_score \in LoginRisks :
                Login(username, password_ok, risk_score)
          \/ \E role \in Roles : UpdateUserRole(username, role)
          \/ BlockUser(username)
    \/ Save(1, "s2", <<"k1">>, <<>>, 50)
    \/ Connect("c1")
    \/ AuthSuccess("c1", "token", "alice")
    \/ ReceiveDisconnect("c1")
    \/ \E how \in {"returned", "raised"} : ReceiveAfterClose("c1", how)
    \/ ServerClose("c1")
    \/ Send("c1")
    \/ TermSend("c1")
    \/ TermClose("c1")
    \/ \E m \in AccountMessages :
          \/ BehavioralBlocked("c1", m)
          \/ \E risk \in SampledRisks : BehavioralResult("c1", m, risk)
          \/ \E risk \in SampledRisks : BehavioralBlock("c1", m, risk, "delivered")
          \/ UserAuthBlocked("c1", m)
          \/ UserAuthentication("c1", m)
          \/ FeedbackBlocked("c1", m)
          \/ Feedback("c1", m)

SpecAccounts == Init /\ [][NextAccounts]_vars

-----------------------------------------------------------------------------
(* Vocabulary of the properties *)

\* The handler of inbound frame fid is suspended at an await: the frame's
\* handling is not finished.
Handling(fid) ==
    \E c \in Conns :
        /\ pc[c] \in {"send", "close_mismatch", "term_send", "term_close"}
        /\ cur[c].fid = fid

\* This step receives a frame on connection c; it is the last of received'.
Receives(c) ==
    /\ Len(received') = Len(received) + 1
    /\ received'[Len(received')].conn = c

\* The audit event types of the blocked-user path.
BlockedEventTypes ==
    {"BLOCKED_USER_ACTIVITY", "BLOCKED_USER_AUTH_ATTEMPT", "BLOCKED_USER_FEEDBACK"}

\* The security events of one type written by the handling of frame fid.
EventsOf(fid, event_type) ==
    {i \in DOMAIN security_events :
        security_events[i].cause = fid /\ security_events[i].event_type = event_type}

\* The frames of one type sent to connection c by the handling of frame fid.
FramesOf(c, fid, type) ==
    {i \in DOMAIN outbox[c] : outbox[c][i].cause = fid /\ outbox[c][i].type = type}

\* The frames that serve a request.
ServedFrameTypes == {"authentication_success", "analysis_result", "feedback_received"}

-----------------------------------------------------------------------------
(* C1 .. C5 *)

\* C1: every behavioral_data, user_authentication or feedback frame handled
\* while the user it names is blocked, with or without a session entry for
\* its sessionId, leaves an audit event of the matching kind, and once its
\* handling is finished the connection that sent it is closed.
C1_BlockedPathTerminates ==
    \A fid \in DOMAIN received :
        (received[fid].what \in BlockedEventTypes /\ ~Handling(fid)) =>
            /\ EventsOf(fid, received[fid].what) # {}
            /\ ws[received[fid].conn] # "open"

\* C2: a behavioral_data frame of a non-blocked user scored at or above
\* anomaly_block_threshold is acted on exactly once: when its handling is
\* finished there is exactly one REALTIME_ANOMALY_BLOCK event of it, exactly
\* one session_terminated frame of it was sent to the sender, no
\* analysis_result of it was sent to anyone, and the sender is closed.
C2_BlockActsExactlyOnce ==
    \A fid \in DOMAIN received :
        (received[fid].what = "block" /\ ~Handling(fid)) =>
            LET c == received[fid].conn IN
            /\ Cardinality(EventsOf(fid, "REALTIME_ANOMALY_BLOCK")) = 1
            /\ Cardinality(FramesOf(c, fid, "session_terminated")) = 1
            /\ \A d \in Conns : FramesOf(d, fid, "analysis_result") = {}
            /\ ws[c] # "open"

\* C3: in every state after a behavioral_data frame was scored at or above
\* anomaly_block_threshold, is_user_blocked is true of the userId the frame
\* named, whatever that userId is (a user without a row, no userId at all).
C3_BlockedAfterwards ==
    \A fid \in DOMAIN received :
        received[fid].what = "block" => is_user_blocked(received[fid].userId)

\* C4: on a connection bound to a non-null subject, a frame whose userId is
\* non-null and differs from the subject is stopped by the mismatch guard:
\* no handler runs (the tables, the profiles and the sessions do not change)
\* and the connection is closed at the next step of its handler.
C4_MismatchNotProcessed ==
    [][\A c \in Conns :
          LET sub == connection_auth[c].sub
              f == received'[Len(received')] IN
          /\ (Receives(c) /\ sub # Null /\ f.userId # Null /\ f.userId # sub) =>
                /\ f.what = "mismatch"
                /\ pc'[c] = "close_mismatch"
                /\ UNCHANGED <<dbVars, user_profiles, user_sessions>>
          /\ (pc[c] = "close_mismatch" /\ pc'[c] # "close_mismatch") =>
                ws'[c] # "open"]_vars

\* C5: a first frame that is not JSON, carries no token (a JSON value that is
\* not an object included) or carries a token the verifier rejects never
\* authenticates the connection: the handler goes to its close(1008) with no
\* claims bound and auth_success unchanged, and that close happens.  The only
\* other steps from the first receive bind the subject of a verified token,
\* or the client leaves.
C5_AuthFailureCloses ==
    [][\A c \in Conns :
          /\ (pc[c] = "auth_recv" /\ pc'[c] # "auth_recv") =>
                \/ /\ connection_auth'[c].bound
                   /\ connection_auth'[c].sub \in TokenHolders
                \/ /\ pc'[c] = "auth_close"
                   /\ ~connection_auth'[c].bound
                   /\ metrics'.auth_success = metrics.auth_success
                \/ ws'[c] = "gone"
          /\ (pc[c] = "auth_close" /\ pc'[c] # "auth_close") =>
                /\ ws'[c] = "closed_1008"
                /\ ~connection_auth'[c].bound]_vars

-----------------------------------------------------------------------------
(* C6 .. C10 *)

\* C6: once an account is disabled no frame is served in its name on the
\* WebSocket: no authentication_success, analysis_result or
\* feedback_received is sent on a connection whose token subject is blocked,
\* nor for a frame that names a blocked user.
C6_DisabledNeverServed ==
    [][\A c \in Conns :
          (/\ pc[c] = "send"
           /\ outbox'[c] # outbox[c]
           /\ cur[c].frame.type \in ServedFrameTypes) =>
                /\ ~is_user_blocked(connection_auth[c].sub)
                /\ ~is_user_blocked(cur[c].userId)]_vars

\* C7: under every configured pair of thresholds, an analysis_result (sent
\* only for a score below the block threshold) carries alert level HIGH
\* exactly when its score is above high_risk_threshold, MEDIUM exactly when
\* its score is at most high_risk_threshold and above 0.5, and no alert
\* otherwise; it carries the frame's sessionId and the score.  (The timestamp
\* member is the clock's and is not part of the model.)
C7_AlertLevels ==
    \A c \in Conns :
        \A f \in {outbox[c][i] : i \in DOMAIN outbox[c]}
                 \cup (IF pc[c] = "send" THEN {cur[c].frame} ELSE {}) :
            f.type = "analysis_result" =>
                /\ f.riskScore < settings.anomaly_block_threshold
                /\ f.alert = "HIGH" <=> f.riskScore > settings.high_risk_threshold
                /\ f.alert = "MEDIUM" <=> (/\ f.riskScore <= settings.high_risk_threshold
                                           /\ f.riskScore > MediumThreshold)
                /\ f.alert \in {"HIGH", "MEDIUM", "none"}
                /\ f.sessionId \in SessionIds

\* C7, its case: one client has received an analysis_result with a HIGH
\* alert, one with a MEDIUM alert and one with a score that equals
\* high_risk_threshold.
C7_Witness ==
    \E c \in Conns : \E i, j \in DOMAIN outbox[c] :
        /\ outbox[c][i].type = "analysis_result" /\ outbox[c][i].alert = "HIGH"
        /\ outbox[c][j].type = "analysis_result" /\ outbox[c][j].alert = "MEDIUM"
        /\ outbox[c][j].riskScore = settings.high_risk_threshold

\* C8: a frame that is not JSON, received on an authenticated connection,
\* changes only messages_total and the event log (the tables, the profiles,
\* the sessions, the claims and the sockets stay as they are), and unless the
\* client leaves first its handling ends with exactly one error frame sent
\* back, the connection open and authenticated and the loop at its next
\* receive.
C8_InvalidJsonAnswered ==
    [][\A c \in Conns :
          /\ (Receives(c) /\ received'[Len(received')].what = "invalid_json") =>
                /\ metrics' = [metrics EXCEPT !.messages_total = @ + 1]
                /\ pc'[c] = "send"
                /\ UNCHANGED <<dbVars, user_profiles, user_sessions, connection_auth,
                               ws, outbox>>
          /\ (pc[c] = "send" /\ cur[c].type = "invalid_json" /\ pc'[c] # "send") =>
                \/ ws'[c] # "open"
                \/ /\ FramesOf(c, cur[c].fid, "error") = {}
                   /\ outbox'[c] = Append(outbox[c],
                         OutFrame("error", Null, Null, 0, "none", cur[c].fid))
                   /\ pc'[c] = "recv"
                   /\ connection_auth'[c].bound
                   /\ UNCHANGED <<dbVars, user_profiles, user_sessions, connection_auth,
                                  metrics, ws>>]_vars

\* C8, its case: a connection has been sent the error frame of a frame that
\* was not JSON and, after it, the reply to a later frame that was served.
C8_Witness ==
    \E i, j \in DOMAIN received :
        LET c == received[i].conn IN
        /\ i < j
        /\ received[j].conn = c
        /\ received[i].what = "invalid_json"
        /\ received[j].what \in {"served", "result"}
        /\ FramesOf(c, i, "error") # {}
        /\ \E k \in DOMAIN outbox[c] :
              outbox[c][k].cause = j /\ outbox[c][k].type \in ServedFrameTypes

\* C9: a parseable frame without a known type, a JSON value that is not an
\* object included, is ignored or answered: the tables, the profiles and the
\* sessions do not change and the handler stays in its loop, at the next
\* receive or at the send of an answer.
C9_UnknownNeverEndsLoop ==
    [][\A c \in Conns :
          (Receives(c) /\ received'[Len(received')].what \in {"unknown", "nonobject"}) =>
                /\ pc'[c] \in {"recv", "send"}
                /\ connection_auth'[c].bound
                /\ UNCHANGED <<dbVars, user_profiles, user_sessions>>]_vars

\* C10: while the global model is untrained, every behavioural batch of a
\* user id that is null or has no profile is scored exactly 0.0: the handler
\* that called analyze_real_time goes on with that score.
C10_UntrainedScoresZero ==
    [][\A c \in Conns :
          LET f == received'[Len(received')] IN
          (/\ Receives(c)
           /\ f.what \in {"result", "block", "analyze_raised"}
           /\ ~is_trained
           /\ ~(Truthy(f.userId) /\ f.userId \in user_profiles)) =>
                /\ f.what = "result"
                /\ cur'[c].risk = 0]_vars

-----------------------------------------------------------------------------
(* C11 .. C13: the feature extractor *)

\* The events of a batch that are objects with a timestamp member.
IsTimestamped(e) == e.obj /\ e.ts # Absent
Timestamped(data) == SelectSeq(data, IsTimestamped)

\* A keystroke batch too small to compute from, and a pointer batch likewise.
KeystrokeTooSmall(data) ==
    \/ Len(Timestamped(data)) < MinKeystrokeEvents
    \/ Len(SelectSeq(Timestamped(data), IsKeydown)) < MinKeydownKeyup
    \/ Len(SelectSeq(Timestamped(data), IsKeyup)) < MinKeydownKeyup

MouseTooSmall(data) == Len(Timestamped(data)) < MinMouseEvents

\* C11: a keystroke batch with fewer than 6 timestamped events, fewer than 3
\* keydown or fewer than 3 keyup events yields the complete all-zero keystroke
\* vector, and a pointer batch with fewer than 5 timestamped events the
\* complete all-zero pointer vector; neither call raises or returns a partial
\* vector.
C11_SmallBatchGivesDefault ==
    /\ features.call = "keystroke" /\ KeystrokeTooSmall(raw_events.keystrokeData)
         => features.status = "returned" /\ features.vec = get_default_keystroke_features
    /\ features.call = "mouse" /\ MouseTooSmall(raw_events.mouseData)
         => features.status = "returned" /\ features.vec = get_default_mouse_features

\* C12: extract_keystroke_features returns the same set of feature names on
\* its default path and on its computed path, extract_mouse_features
\* likewise, and so every combined vector has the same set of names.
C12_SameFeatureNames ==
    features.status = "returned" =>
        DOMAIN features.vec =
            CASE features.call = "keystroke" -> DOMAIN get_default_keystroke_features
              [] features.call = "mouse" -> DOMAIN get_default_mouse_features
              [] features.call = "vector" -> DOMAIN get_default_keystroke_features
                                             \cup DOMAIN get_default_mouse_features

\* Both extractors took their computed path, the pointer one with fewer than
\* two clicks, and the two vectors were combined.
C12_Witness ==
    /\ features.call = "vector"
    /\ features.status = "returned"
    /\ ~KeystrokeTooSmall(raw_events.keystrokeData)
    /\ ~MouseTooSmall(raw_events.mouseData)
    /\ Len(SelectSeq(raw_events.mouseData, IsClick)) < 2
    /\ features.vec["keys_count"] # Fin(0)
    /\ features.vec["mouse_events_count"] # Fin(0)

\* C13: every value of every returned feature vector is a finite number.
C13_ValuesFinite ==
    features.status = "returned" =>
        \A nm \in DOMAIN features.vec : IsFinite(features.vec[nm])

-----------------------------------------------------------------------------
(* C14, C16 .. C18, C20: the service *)

\* C14: a feedback frame of a user who is not blocked and has no profile,
\* whatever it carries, creates the profile and goes on to send
\* feedback_received; that frame is sent exactly once, the connection stays
\* open and the loop goes on, unless the client has left.
C14_FeedbackCreatesProfile ==
    [][\A c \in Conns :
          LET f == received'[Len(received')] IN
          /\ (/\ Receives(c)
              /\ \/ f.what = "update_raised"
                 \/ f.what = "served" /\ cur'[c].type = "feedback"
              /\ f.userId \notin user_profiles) =>
                /\ f.userId \in user_profiles'
                /\ pc'[c] = "send"
                /\ cur'[c].frame.type = "feedback_received"
                /\ ws'[c] = "open"
          /\ (pc[c] = "send" /\ cur[c].type = "feedback" /\ pc'[c] # "send") =>
                \/ ws'[c] # "open"
                \/ /\ FramesOf(c, cur[c].fid, "feedback_received") = {}
                   /\ Cardinality(FramesOf(c, cur[c].fid, "feedback_received")') = 1
                   /\ pc'[c] = "recv"]_vars

\* The profiles there would be had no user_authentication frame been served
\* (where only user_authentication creates profiles).
ProfilesWithoutUserAuth ==
    user_profiles \ {received[i].userId :
                        i \in {j \in DOMAIN received : received[j].what = "served"}}

\* C16: a behavioural sample is scored by the same model, and gets a score
\* that model can give, whether or not user_authentication frames were
\* handled before it.
C16_UserAuthKeepsScoring ==
    [][\A c \in Conns :
          LET f == received'[Len(received')] IN
          (Receives(c) /\ f.what \in {"result", "block"}) =>
              /\ scoring_model(f.userId, user_profiles)
                    = scoring_model(f.userId, ProfilesWithoutUserAuth)
              /\ f.what = "result" =>
                    cur'[c].risk \in analyze_real_time("ok", f.userId,
                                                       ProfilesWithoutUserAuth, is_trained)]_vars

\* C17: once the handler of a connection has ended, however it ended, no
\* session entry is owned by that connection; and an entry disappears only
\* at the end of a termination of its session.
C17_EntriesReleasedOnExit ==
    [][/\ \A c \in Conns : pc'[c] \in {"returned", "raised", "done"} =>
             \A sid \in SessionIds :
                 ~(user_sessions'[sid].present /\ user_sessions'[sid].websocket = c)
       /\ \A sid \in SessionIds :
             (user_sessions[sid].present /\ ~user_sessions'[sid].present) =>
                 \E c \in Conns : pc[c] = "term_close" /\ cur[c].sessionId = sid]_vars

\* C18: when a behavioral_data, user_authentication or feedback frame of a
\* user who is not blocked has been handled, and its session id had no entry
\* (as at the first frame that names a session id), the session table holds
\* an entry of that session id owned by the sender.
C18_FirstMessageCreatesSession ==
    [][\A c \in Conns :
          LET f == received'[Len(received')]
              sid == cur'[c].sessionId IN
          (/\ Receives(c)
           /\ f.what \in {"served", "result"}
           /\ ~user_sessions[sid].present) =>
                /\ user_sessions'[sid].present
                /\ user_sessions'[sid].websocket = c]_vars

\* C20: when a sample is scored at or above the block threshold the account
\* (if the user has one) is disabled, and whether or not the audit write or
\* the alert fails the handler goes on to terminate the sender's session:
\* session_terminated is sent best-effort, the connection is closed and the
\* session entry removed, the account still disabled.  (A termination with
\* risk 1.0 is that of the blocked-user path, not of a block decision.)
C20_BlockSurvivesFailures ==
    [][\A c \in Conns :
          LET f == received'[Len(received')] IN
          /\ (Receives(c) /\ f.what = "block") =>
                /\ get_user_success(f.userId) => users'[f.userId] = "blocked"
                /\ pc'[c] = "term_send"
                /\ cur'[c].target = c
          /\ (pc[c] = "term_close" /\ cur[c].risk # 100 /\ pc'[c] # "term_close") =>
                /\ ws'[cur[c].target] # "open"
                /\ ~user_sessions'[cur[c].sessionId].present
                /\ get_user_success(cur[c].userId) => users'[cur[c].userId] = "blocked"]_vars

-----------------------------------------------------------------------------
(* C15: the profile store *)

\* The calls made with one session id, in call order.
CallsOf(session_id) ==
    LET OfSession(call) == call.session_id = session_id
    IN SelectSeq(saves, OfSession)

\* C15: after any sequence of save_behavioral_profile calls, a session id
\* has a row exactly when a call was made with it (one row at most, the
\* table being keyed by session id); the row's keystroke list and its mouse
\* list are the lists of those calls joined in call order, and its risk
\* score is that of the last of them.
C15_SavesAccumulate ==
    \A sid \in SessionIds :
        LET calls == CallsOf(sid)
            row == behavioral_profiles[sid] IN
        /\ row.present <=> calls # <<>>
        /\ row.present =>
              /\ stored_list(row.samples, "keystroke_data") = stored_list(calls, "keystroke_data")
              /\ stored_list(row.samples, "mouse_data") = stored_list(calls, "mouse_data")
              /\ row.risk_score = calls[Len(calls)].risk_score

\* C15, its case: two calls were made with the same session id, with
\* different events and different risk scores, and the row holds the three
\* keystroke events of both.
C15_Witness ==
    \E sid \in SessionIds :
        LET calls == CallsOf(sid) IN
        /\ Len(calls) >= 2
        /\ OrEmpty(calls[1].keystroke_data) # <<>>
        /\ OrEmpty(calls[2].keystroke_data) # <<>>
        /\ calls[1].keystroke_data # calls[2].keystroke_data
        /\ calls[1].risk_score # calls[2].risk_score
        /\ Len(stored_list(behavioral_profiles[sid].samples, "keystroke_data")) = 3

-----------------------------------------------------------------------------
(* C19: two connections at the same time *)

\* C19: a termination started by a frame received on a connection tells and
\* closes that connection; and a frame is delivered to a connection, or the
\* state of its socket changes, only in a step of that connection's own
\* handler, also when both connections name the same session id.
C19_TerminationIsLocal ==
    [][\A c \in Conns :
          /\ (pc[c] # "term_send" /\ pc'[c] = "term_send") => cur'[c].target = c
          /\ (outbox'[c] # outbox[c] \/ ws'[c] # ws[c]) => pc'[c] # pc[c]]_vars

-----------------------------------------------------------------------------
(* Claims C21..C30 *)

\* The positions of a handler between its accept and its exit.
LiveHandler == {"auth_recv", "auth_close", "recv", "send", "close_mismatch",
                "term_send", "term_close"}

\* The frames that _process_message handed to one of the three handlers.
DispatchedFrames ==
    {i \in DOMAIN received :
        received[i].what \notin {"invalid_json", "nonobject", "mismatch", "unknown"}}

\* The frames whose handler created the UserProfile of user u.
CreationsOf(u) == {i \in DOMAIN received : received[i].created /\ received[i].userId = u}

InboundOf(c) == {i \in DOMAIN received : received[i].conn = c}

\* The positions in the outbox of c of the frames sent by the handling of
\* c's own inbound frames.
ResponsesOf(c) == {i \in DOMAIN outbox[c] : outbox[c][i].cause \in InboundOf(c)}

\* The handler of c is inside the handling of frame fid.
InHandling(c, fid) ==
    pc[c] \in {"send", "close_mismatch", "term_send", "term_close"} /\ cur[c].fid = fid

Told(t, fid) == FramesOf(t, fid, "session_terminated") # {}

\* C23: a termination that found an owning connection attempts the send
\* first (the socket is still as it was when the send step ends), attempts
\* the close whether or not the send failed, removes the Session entry
\* whether or not the send or the close failed, and never lets a failure
\* out: the handler is back in its loop afterwards.
C23_TerminationCompletes ==
    [][\A c \in Conns :
          /\ pc'[c] = "term_close" /\ pc[c] # "term_close" => pc[c] = "term_send"
          /\ pc[c] = "term_send" /\ pc'[c] # pc[c]
                => /\ pc'[c] = "term_close"
                   /\ ws' = ws
                   /\ ws[cur[c].target] = "open" => Told(cur[c].target, cur[c].fid)'
          /\ pc[c] = "term_close" /\ pc'[c] # pc[c]
                => /\ pc'[c] = "recv"
                   /\ ws'[cur[c].target] # "open"
                   /\ ~user_sessions'[cur[c].sessionId].present]_vars

\* A termination whose send failed (the owning connection's socket was no
\* longer open, nothing was delivered) stands before its close, which will
\* fail too.
C23_Witness ==
    \E c \in Conns :
        /\ pc[c] = "term_close"
        /\ ws[cur[c].target] # "open"
        /\ ~Told(cur[c].target, cur[c].fid)

\* The last frame received and the last audit event written.
LastReceived == received[Len(received)]
LastEvent == security_events[Len(security_events)]

\* This step is a piece of the handling, on connection c, of a frame that
\* took the blocked-user path for session sid: the piece that receives it and
\* writes the audit event, or a piece of its termination (which alone has
\* risk 1.0).
BlockedPathStep(c, sid) ==
    \/ /\ Receives(c)
       /\ LastReceived'.what \in BlockedEventTypes
       /\ LastEvent'.session_id = sid
    \/ /\ pc[c] \in {"term_send", "term_close"} /\ pc'[c] # pc[c]
       /\ cur[c].risk = 100
       /\ cur[c].sessionId = sid

\* C24: a behavioral_data, user_authentication or feedback frame that names
\* a user who is blocked when it is received takes the blocked-user path (no
\* extraction, no scoring, no profile update), and no piece of that path
\* changes the UserProfile table, the stored samples, an account's disabled
\* flag, the configuration or a Session entry other than the one of the
\* frame's session id, which can only be removed.
C24_BlockedFrameEffect ==
    [][\A c \in Conns :
          /\ ( /\ Receives(c)
               /\ Len(received') \in DispatchedFrames'
               /\ is_user_blocked(LastReceived'.userId) )
                => LastReceived'.what \in BlockedEventTypes
          /\ \A sid \in SessionIds :
                BlockedPathStep(c, sid)
                   => /\ UNCHANGED <<users, behavioral_profiles, user_profiles,
                                     cfgVars, libVars, roles>>
                      /\ \A s \in SessionIds :
                            user_sessions'[s] # user_sessions[s]
                               => s = sid /\ user_sessions'[s] = NoSession]_vars

\* The frame that blocked alice left its Session entry behind (its handler
\* ended before the termination: nothing told the client), a later frame of
\* alice in the same session took the blocked-user path, its handling is
\* finished and the entry is gone.
C24_Witness ==
    \E i, j \in DOMAIN security_events :
        LET blocking == security_events[i]
            attempt == security_events[j] IN
        /\ blocking.event_type = "REALTIME_ANOMALY_BLOCK"
        /\ attempt.event_type \in BlockedEventTypes
        /\ attempt.session_id = blocking.session_id
        /\ attempt.cause > blocking.cause
        /\ \A c \in Conns : ~Told(c, blocking.cause)
        /\ ~Handling(attempt.cause)
        /\ ~user_sessions[attempt.session_id].present

\* C25: once a behavioral_data frame naming a user who is not blocked has
\* been scored and answered, that user has a UserProfile.
C25_FirstSampleCreatesProfile ==
    \A fid \in DOMAIN received :
        received[fid].what = "result" /\ ~Handling(fid)
           => received[fid].userId \in user_profiles

\* The dwell times of the statement: each release, in time order, is matched
\* with the earliest press of its key that no release has taken yet, and its
\* dwell is its timestamp minus that press's; a release without such a press
\* gives none, and a dwell outside 0..3000 ms is discarded.
RECURSIVE fifo_dwells(_, _, _)
fifo_dwells(evs, open, dwells) ==
    IF evs = <<>> THEN dwells
    ELSE LET e == Head(evs)
             rest == Tail(evs)
         IN IF IsKeydown(e)
            THEN fifo_dwells(rest, [open EXCEPT ![e.key] = Append(@, e.ts)], dwells)
            ELSE IF ~IsKeyup(e) \/ open[e.key] = <<>> THEN fifo_dwells(rest, open, dwells)
            ELSE LET d == FSub(e.ts, Head(open[e.key]))
                 IN fifo_dwells(rest, [open EXCEPT ![e.key] = Tail(@)],
                                IF InRange(0, d, MaxDwellMs) THEN Append(dwells, d)
                                ELSE dwells)

\* C26: when extract_keystroke_features computes from a batch above the
\* minimum counts, its dwell statistics are those of the release-minus-press
\* times matched first-in first-out per key and kept within 0..3000 ms.
C26_DwellIsReleaseMinusPress ==
    ( /\ features.call = "keystroke"
      /\ features.status = "returned"
      /\ ~KeystrokeTooSmall(raw_events.keystrokeData) )
       => LET ordered == ordered_events(raw_events.keystrokeData)
              stated == safe_stats(fifo_dwells(ordered, [k \in KeyNames |-> <<>>], <<>>),
                                   "dwell")
          IN \A nm \in DOMAIN stated : features.vec[nm] = stated[nm]

\* C27: a block is permanent: in no step does a blocked user cease to be
\* blocked, whether the step is a registration, a start-session, a login, a
\* role change, a save of a behavioral profile, a further block or a piece
\* of the handling of a WebSocket frame.
C27_BlockIsPermanent ==
    [][\A u \in Names : is_user_blocked(u) => is_user_blocked(u)']_vars

\* Alice was blocked by the handling of a frame and blocked again by a
\* direct call afterwards, bob has registered, a profile has been stored, and
\* alice is blocked.
C27_Witness ==
    /\ is_user_blocked("alice")
    /\ \E i, j \in DOMAIN security_events :
          /\ i < j
          /\ security_events[i].event_type = "REALTIME_ANOMALY_BLOCK"
          /\ security_events[j] = SecurityEvent("alice", "ANOMALY_BLOCK", Null, 0)
    /\ users["bob"] = "active"
    /\ saves # <<>>

\* The frames delivered to connection c and the one its handler is about to send.
SentOrPending(c) ==
    {outbox[c][i] : i \in DOMAIN outbox[c]} \cup (IF pc[c] = "send" THEN {cur[c].frame} ELSE {})

\* C28: where the block threshold is at most the high-risk threshold, no
\* analysis_result carries a HIGH alert, and every stored sample whose score
\* is above the high-risk threshold has, once its frame's handling is
\* finished, been answered with session_terminated.
C28_HighRiskIsTerminated ==
    settings.anomaly_block_threshold <= settings.high_risk_threshold =>
        /\ \A c \in Conns : \A f \in SentOrPending(c) :
              f.type = "analysis_result" => f.alert # "HIGH"
        /\ \A sid \in SessionIds :
              LET row == behavioral_profiles[sid]
                  fid == row.samples[Len(row.samples)]
              IN ( /\ row.present
                   /\ row.risk_score > settings.high_risk_threshold
                   /\ ~Handling(fid) )
                    => \E c \in Conns : Told(c, fid)

\* C29: a termination removes only the Session entry it terminated: the
\* step that ends it leaves every entry owned by another connection than
\* the one it told and closed (an entry written for the same session id
\* while the termination was suspended) in the table.
C29_TerminationKeepsNewEntry ==
    [][\A c \in Conns :
          (pc[c] = "term_close" /\ pc'[c] # "term_close")
             => \A sid \in SessionIds :
                   ( /\ user_sessions[sid].present
                     /\ user_sessions[sid].websocket # cur[c].target )
                      => user_sessions'[sid] = user_sessions[sid]]_vars

\* C30: the events stored in a row were supplied by calls made for the
\* row's user: every call of a session id that supplied an event (its lists
\* are in the row, joined in call order) has the user id the row is stored
\* under.
C30_RowHoldsItsUsersEvents ==
    \A sid \in SessionIds :
        LET calls == CallsOf(sid)
            row == behavioral_profiles[sid] IN
        row.present =>
            \A i \in DOMAIN calls :
                OrEmpty(calls[i].keystroke_data) \o OrEmpty(calls[i].mouse_data) # <<>>
                   => calls[i].user_id = row.user

====
